---- MODULE Spec2Model ----
(***************************************************************************)
(* Model of the decision / delta-check / batch-ingestion engine of         *)
(* qft_interpreter.py (LIAISON QFT-Plus Interpreter v1.10).                *)
(*                                                                         *)
(* Concentrations are fixed-point numbers: one unit is 0.0025 IU/mL, so    *)
(* that every input given with two decimals (a multiple of 4 units) has an *)
(* exact quarter.  Timestamps are whole seconds; the text form             *)
(* '%Y-%m-%d %H:%M:%S' orders exactly as the second count does.            *)
(* The category token written POS-dagger in the source is "POS+" here      *)
(* (the module text is ASCII).                                             *)
(***************************************************************************)
EXTENDS Integers, Sequences, FiniteSets, TLC

VARIABLES
    db,             \* rows of table interpretations, in rowid order
    log,            \* INTERPRET rows of the CSV log, in file order
    now,            \* datetime.now(), in seconds
    is_processing,  \* QFTApp.is_processing, per application instance
    pc,             \* where each instance's run_interpretation is
    cur,            \* locals of the run_interpretation in flight
    ret,            \* value returned by the run_interpretation call of the last handler
    dialogs,        \* messagebox titles shown by the last handler
    batch,          \* locals of the _process_csv in flight
    batch_out,      \* what _process_csv returned to the last handler
    qft,            \* dictionary returned by the last direct interpret_qft call
    self_test,      \* counters of the last run_self_test
    apps,           \* the application instances running on the history file
    checked,        \* per row of db: what the delta check of its interpretation saw
    dashboard,      \* what the last update_dashboard computed and displayed
    report,         \* what the last _generate_report handed to its writer
    db_locked,      \* sqlite3 raises sqlite3.Error on the history file
    treeview,       \* the rows load_history put in the history window
    debug,          \* per instance: the DEBUG line of line 330 was printed during the call in flight
    failures        \* per instance: the sqlite3 errors caught in its handler in flight or last returned

vars == <<db, log, now, is_processing, pc, cur, ret, dialogs,
          batch, batch_out, qft, self_test, apps, checked, dashboard, report,
          db_locked, treeview, debug, failures>>

----------------------------------------------------------------------------
(* Bounds of the model *)

MaxDb == 2          \* rows the history may hold
MaxTime == 1        \* last second of the clock
MaxRows == 2        \* data rows of a batch file
MaxHist == 2        \* rows of a history the aggregation is given

----------------------------------------------------------------------------
(* Units and thresholds *)

IU(h) == 4 * h                  \* h hundredths of an IU/mL, in units

NIL_MAX == IU(800)              \* 8.0
TB_MIN == IU(35)                \* 0.35
MIT_MIN == IU(50)               \* 0.5
NIL_WARN == IU(100)             \* 1.0
MIT_WARN == IU(1500)            \* 15.0

POS == "POS+"
NEG == "NEG"
IND == "IND*"
Categories == {POS, NEG, IND}

None == <<>>

----------------------------------------------------------------------------
(* Core interpretation logic: interpret_qft and check_significant_change *)

\* A quarter of every nil value, without the floor at 0 for a negative nil.
nil_25_percent_unfloored(nil) == IF nil >= 0 THEN nil \div 4 ELSE -((-nil) \div 4)

\* nil_25_percent of line 159: 0.25*nil if nil >= 0, else 0.
nil_25_percent(nil) == IF nil >= 0 THEN nil \div 4 ELSE 0

\* The high-nil test with the threshold mistyped as 80.0.
is_high_nil_80(nil) == nil > 10 * IU(800)

\* The test of line 160: nil > 8.0.
is_high_nil(nil) == nil > NIL_MAX

\* The antigen test with strict comparisons.
is_tb_pos_strict(tb_minus_nil, nil_25) ==
    tb_minus_nil > TB_MIN /\ tb_minus_nil > nil_25

\* The antigen test without the 25% rule.
is_tb_pos_no25(tb_minus_nil, nil_25) == tb_minus_nil >= TB_MIN

\* is_tb1_pos / is_tb2_pos of line 162.
is_tb_pos(tb_minus_nil, nil_25) ==
    tb_minus_nil >= TB_MIN /\ tb_minus_nil >= nil_25

\* The mitogen test with the comparison turned strict.
is_mit_valid_strict(mit_minus_nil) == mit_minus_nil > MIT_MIN

\* The test of line 166: mit_minus_nil >= 0.5.
is_mit_valid(mit_minus_nil) == mit_minus_nil >= MIT_MIN

\* The dictionary interpret_qft returns (line 168).
results_dict(nil, tb1, tb2, mit, qft_result, reason) ==
    [result |-> qft_result, tb1_nil |-> tb1 - nil, tb2_nil |-> tb2 - nil,
     mit_nil |-> mit - nil, nil_25 |-> nil_25_percent(nil), reason |-> reason,
     input_nil |-> nil, input_tb1 |-> tb1, input_tb2 |-> tb2, input_mit |-> mit]

\* interpret_qft with the TB2 branch tried before the TB1 branch.
interpret_qft_tb2_first(nil, tb1, tb2, mit) ==
    LET tb1_minus_nil == tb1 - nil
        tb2_minus_nil == tb2 - nil
        mit_minus_nil == mit - nil
        out == IF is_high_nil(nil)
                 THEN <<IND, <<"High Nil Control", nil>>>>
               ELSE IF is_tb_pos(tb2_minus_nil, nil_25_percent(nil))
                 THEN <<POS, <<"TB2 Antigen positive", tb2_minus_nil>>>>
               ELSE IF is_tb_pos(tb1_minus_nil, nil_25_percent(nil))
                 THEN <<POS, <<"TB1 Antigen positive", tb1_minus_nil>>>>
               ELSE IF is_mit_valid(mit_minus_nil)
                 THEN <<NEG, <<"TB Antigens negative, Mitogen control valid">>>>
               ELSE <<IND, <<"Low Mitogen Control", mit_minus_nil>>>>
    IN  results_dict(nil, tb1, tb2, mit, out[1], out[2])

\* interpret_qft with hidden state: a panel that follows a stored POS+ row
\* of the history is never called NEG.
interpret_qft_stateful(nil, tb1, tb2, mit) ==
    LET tb1_minus_nil == tb1 - nil
        tb2_minus_nil == tb2 - nil
        mit_minus_nil == mit - nil
        sticky == Len(db) > 0 /\ db[Len(db)].result = POS
        out == IF is_high_nil(nil)
                 THEN <<IND, <<"High Nil Control", nil>>>>
               ELSE IF is_tb_pos(tb1_minus_nil, nil_25_percent(nil))
                 THEN <<POS, <<"TB1 Antigen positive", tb1_minus_nil>>>>
               ELSE IF is_tb_pos(tb2_minus_nil, nil_25_percent(nil))
                 THEN <<POS, <<"TB2 Antigen positive", tb2_minus_nil>>>>
               ELSE IF is_mit_valid(mit_minus_nil) /\ ~sticky
                 THEN <<NEG, <<"TB Antigens negative, Mitogen control valid">>>>
               ELSE <<IND, <<"Low Mitogen Control", mit_minus_nil>>>>
    IN  results_dict(nil, tb1, tb2, mit, out[1], out[2])

\* interpret_qft that writes the Positive token without its dagger.
interpret_qft_plain_pos(nil, tb1, tb2, mit) ==
    LET tb1_minus_nil == tb1 - nil
        tb2_minus_nil == tb2 - nil
        mit_minus_nil == mit - nil
        out == IF is_high_nil(nil)
                 THEN <<IND, <<"High Nil Control", nil>>>>
               ELSE IF is_tb_pos(tb1_minus_nil, nil_25_percent(nil))
                 THEN <<"POS", <<"TB1 Antigen positive", tb1_minus_nil>>>>
               ELSE IF is_tb_pos(tb2_minus_nil, nil_25_percent(nil))
                 THEN <<"POS", <<"TB2 Antigen positive", tb2_minus_nil>>>>
               ELSE IF is_mit_valid(mit_minus_nil)
                 THEN <<NEG, <<"TB Antigens negative, Mitogen control valid">>>>
               ELSE <<IND, <<"Low Mitogen Control", mit_minus_nil>>>>
    IN  results_dict(nil, tb1, tb2, mit, out[1], out[2])

\* interpret_qft (lines 157-168).  A reason is the tuple of its fixed text
\* and the value formatted into it.
interpret_qft(nil, tb1, tb2, mit) ==
    LET tb1_minus_nil == tb1 - nil
        tb2_minus_nil == tb2 - nil
        mit_minus_nil == mit - nil
        out == IF is_high_nil(nil)
                 THEN <<IND, <<"High Nil Control", nil>>>>
               ELSE IF is_tb_pos(tb1_minus_nil, nil_25_percent(nil))
                 THEN <<POS, <<"TB1 Antigen positive", tb1_minus_nil>>>>
               ELSE IF is_tb_pos(tb2_minus_nil, nil_25_percent(nil))
                 THEN <<POS, <<"TB2 Antigen positive", tb2_minus_nil>>>>
               ELSE IF is_mit_valid(mit_minus_nil)
                 THEN <<NEG, <<"TB Antigens negative, Mitogen control valid">>>>
               ELSE <<IND, <<"Low Mitogen Control", mit_minus_nil>>>>
    IN  results_dict(nil, tb1, tb2, mit, out[1], out[2])

\* check_significant_change that only knows changes away from NEG or POS+.
check_significant_change_oneway(prev_res, curr_res) ==
    LET significant_pairs == {<<NEG, POS>>, <<POS, NEG>>, <<NEG, IND>>, <<POS, IND>>}
    IN  IF prev_res = curr_res THEN FALSE
        ELSE <<prev_res, curr_res>> \in significant_pairs

\* check_significant_change (lines 178-185).
check_significant_change(prev_res, curr_res) ==
    LET significant_pairs == {<<NEG, POS>>, <<POS, NEG>>, <<NEG, IND>>, <<POS, IND>>}
    IN  IF prev_res = curr_res THEN FALSE
        ELSE IF <<prev_res, curr_res>> \in significant_pairs
                \/ <<curr_res, prev_res>> \in significant_pairs THEN TRUE
        ELSE IF prev_res = IND /\ curr_res \in {POS, NEG} THEN TRUE
        ELSE IF curr_res = IND /\ prev_res \in {POS, NEG} THEN TRUE
        ELSE FALSE

----------------------------------------------------------------------------
(* Text of entry fields and of file cells *)

\* The numeric texts the model enters, with the number float() makes of each.
NumText ==
    ("0.10" :> IU(10)) @@ ("0.20" :> IU(20)) @@ ("0.30" :> IU(30)) @@
    ("0.40" :> IU(40)) @@ ("0.60" :> IU(60)) @@ ("1.50" :> IU(150)) @@
    ("2.0" :> IU(200)) @@ ("5.0" :> IU(500)) @@ ("9.50" :> IU(950)) @@
    ("10.0" :> IU(1000)) @@ ("11.0" :> IU(1100)) @@ ("15.0" :> IU(1500))

\* str.strip() on the texts of the model.
Strip(s) ==
    CASE s = " " -> ""
      [] s = " S1 " -> "S1"
      [] s = " Nil " -> "Nil"
      [] OTHER -> s

\* str.lower() on the header texts of the model.
Lower(s) ==
    CASE s = "Sample ID" -> "sample id"
      [] s = "SAMPLE ID" -> "sample id"
      [] s = "Nil" -> "nil"
      [] s = "TB1" -> "tb1"
      [] s = "TB2" -> "tb2"
      [] s = "Mitogen" -> "mitogen"
      [] s = "MITOGEN" -> "mitogen"
      [] s = "Notes" -> "notes"
      [] OTHER -> s

\* float(s) succeeds (float ignores surrounding blanks).
IsFloat(s) == Strip(s) \in DOMAIN NumText

\* float(s), where it succeeds.
ToFloat(s) == NumText[Strip(s)]

\* validate_input that takes an empty field for zero.
validate_input_empty_zero(value_str) ==
    IF value_str = "" THEN <<TRUE, 0>>
    ELSE IF IsFloat(value_str) THEN <<TRUE, ToFloat(value_str)>>
    ELSE <<FALSE, "Invalid input. Please enter numeric values.">>

\* validate_input (lines 301-304): <<is_valid, number or message>>.
validate_input(value_str) ==
    IF value_str = "" THEN <<FALSE, "Input cannot be empty.">>
    ELSE IF IsFloat(value_str) THEN <<TRUE, ToFloat(value_str)>>
    ELSE <<FALSE, "Invalid input. Please enter numeric values.">>

\* entry.get().strip() or "N/A" (line 339).
EntryOrNA(s) == IF Strip(s) = "" THEN "N/A" ELSE Strip(s)

----------------------------------------------------------------------------
(* Persistence: table interpretations *)

\* The rowids of the rows of sample_id.
RowsOf(history, sample_id) ==
    {i \in 1..Len(history) : history[i].sample_id = sample_id}

\* The rows ORDER BY timestamp DESC may put first: SQL leaves the order
\* of rows with equal timestamps to the query plan.
LatestRows(history, sample_id) ==
    {i \in RowsOf(history, sample_id) :
        \A j \in RowsOf(history, sample_id) :
            history[j].timestamp <= history[i].timestamp}

\* The ORDER BY of get_previous_result turned ascending.
FirstRowsOldest(history, sample_id) ==
    {i \in RowsOf(history, sample_id) :
        \A j \in RowsOf(history, sample_id) :
            history[j].timestamp >= history[i].timestamp}

\* The rows the SELECT of get_previous_result can return first.
FirstRows(history, sample_id) == LatestRows(history, sample_id)

\* get_previous_result (lines 170-176): every (result, timestamp) the
\* query can return on the given table, None when the sample has no row,
\* and None when sqlite3 raises (line 174: log_event drops the ERROR event,
\* as it writes INTERPRET events only, line 80).
get_previous_result(history, sample_id) ==
    IF db_locked THEN {None}
    ELSE IF RowsOf(history, sample_id) = {} THEN {None}
    ELSE {<<history[i].result, history[i].timestamp>> :
            i \in FirstRows(history, sample_id)}

\* The INSERT with the values of tb1 and tb2 in each other's place.
db_row_tb_swapped(data) ==
    [timestamp |-> now, operator_id |-> data.operator_id,
     sample_id |-> data.sample_id, run_id |-> data.run_id,
     nil_value |-> data.input_nil, tb1_value |-> data.input_tb2,
     tb2_value |-> data.input_tb1, mit_value |-> data.input_mit,
     result |-> data.result, reason |-> data.reason]

\* The row save_interpretation_to_db inserts (lines 134-135).
db_row(data) ==
    [timestamp |-> now, operator_id |-> data.operator_id,
     sample_id |-> data.sample_id, run_id |-> data.run_id,
     nil_value |-> data.input_nil, tb1_value |-> data.input_tb1,
     tb2_value |-> data.input_tb2, mit_value |-> data.input_mit,
     result |-> data.result, reason |-> data.reason]

\* The errors caught so far, with one of this kind added when sqlite3
\* raises (the except branches of lines 137 and 174).
caught(errors, kind) == IF db_locked THEN errors \cup {kind} ELSE errors

\* The INSERT turned into INSERT OR REPLACE keyed by the sample: a sample's
\* earlier row gives way to its new one.
save_interpretation_to_db_replace(history, data) ==
    IF db_locked THEN history
    ELSE Append(SelectSeq(history, LAMBDA row : row.sample_id # data.sample_id),
                db_row(data))

\* save_interpretation_to_db (lines 129-140): the table after the call.  The
\* row is inserted behind the others (AUTOINCREMENT rowid); when sqlite3
\* raises, a Database Error dialog is shown, the table stays as it is and
\* the call returns False.
save_interpretation_to_db(history, data) ==
    IF db_locked THEN history ELSE Append(history, db_row(data))

\* The row log_event writes for an INTERPRET event (lines 82-93).
log_row(data) ==
    <<now, data.operator_id, data.run_id, data.sample_id, data.input_nil,
      data.input_tb1, data.input_tb2, data.input_mit, data.result, data.reason>>

----------------------------------------------------------------------------
(* Inputs of the model *)

AllApps == {"A", "B"}

\* The concentration texts of a Positive (TB1), a Negative and a high-nil
\* panel: rows 1, 3 and 4 of SELF_TEST_CASES.
PanelTexts ==
    { <<"0.10", "1.50", "0.20", "5.0">>, <<"0.10", "0.20", "0.30", "2.0">>,
      <<"9.50", "10.0", "11.0", "15.0">> }

\* The contents of the entry fields.
Form(sample_id, p) ==
    [op_id |-> "", run_id |-> "", sample_id |-> sample_id,
     nil |-> p[1], tb1 |-> p[2], tb2 |-> p[3], mit |-> p[4]]

\* What the entry fields may hold when Interpret is pressed: every panel
\* for sample S1, a Negative panel for sample S2, and fields that do not
\* validate.
Forms ==
    { Form("S1", p) : p \in PanelTexts }
    \cup
    { Form("S2", <<"0.10", "0.20", "0.30", "2.0">>),
      Form(" S1 ", <<"0.10", "0.20", "0.30", "2.0">>),
      Form("", <<"0.10", "1.50", "0.20", "5.0">>),
      Form(" ", <<"0.10", "1.50", "0.20", "5.0">>),
      Form("S1", <<"", "1.50", "0.20", "5.0">>),
      Form("S1", <<"0.10", "1.50", "abc", "5.0">>),
      Form("S1", <<"0.10", "1.50", "0.20", " ">>) }

\* The table has room for one more row.
RoomInDb == Len(db) < MaxDb

\* The log has room for one more row: it gets one with every row of the
\* table, and also when the save fails.
RoomInLog == Len(log) < MaxDb

----------------------------------------------------------------------------
(* run_interpretation (lines 328-402) *)

\* prev_ts_nice (lines 364-365): the timestamp without its seconds.
prev_ts_nice(prev_ts) == prev_ts - (prev_ts % 60)

\* The warnings of lines 350-352, given only for a single sample.
input_warnings(single, nil_val, mit_val) ==
    (IF single /\ NIL_WARN < nil_val /\ nil_val <= NIL_MAX
        THEN << <<"Nil high but acceptable", nil_val>> >> ELSE <<>>)
    \o
    (IF single /\ mit_val > MIT_WARN
        THEN << <<"Mitogen very high", mit_val>> >> ELSE <<>>)

\* The delta check of lines 361-366.
delta_warning(previous_db_result, curr_res_val) ==
    IF previous_db_result # None
       /\ check_significant_change(previous_db_result[1], curr_res_val)
    THEN << <<"DELTA CHECK", previous_db_result[1],
              prev_ts_nice(previous_db_result[2]), curr_res_val>> >>
    ELSE <<>>

\* Lines 349-366: the locals of run_interpretation once the latest row is
\* read, the panel interpreted and the delta check made.
interpretation(single, op_id, run_id, sample_id, nil_val, tb1_val, tb2_val, mit_val, previous_db_result) ==
    LET r == interpret_qft(nil_val, tb1_val, tb2_val, mit_val)
             @@ [sample_id |-> sample_id, operator_id |-> op_id, run_id |-> run_id]
    IN  [single |-> single,
         results_dict |-> r,
         previous_db_result |-> previous_db_result,
         warnings |-> input_warnings(single, nil_val, mit_val)
                      \o delta_warning(previous_db_result, r.result),
         read_len |-> Len(db),
         read_error |-> db_locked]

\* Lines 330-347 for a single sample whose fields do not validate: an error
\* dialog, no result.
run_interpretation_rejected(a, form) ==
    LET sample_id == Strip(form.sample_id)
        bad == \E f \in {form.nil, form.tb1, form.tb2, form.mit} :
                  ~validate_input(f)[1]
    IN  /\ a \in apps /\ pc[a] = "idle" /\ ~is_processing[a]
        /\ sample_id = "" \/ bad
        /\ dialogs' = [dialogs EXCEPT ![a] = <<"Input Error">>]
        /\ ret' = [ret EXCEPT ![a] = None]
        /\ batch_out' = [batch_out EXCEPT ![a] = None]
        /\ failures' = [failures EXCEPT ![a] = {}]
        /\ UNCHANGED <<db, log, now, is_processing, pc, cur, batch,
                       qft, self_test, apps, checked, dashboard, report,
                   db_locked, treeview, debug>>

\* Lines 330-366 for a single sample whose fields validate.
run_interpretation_begin(a, form) ==
    LET sample_id == Strip(form.sample_id)
    IN  /\ a \in apps /\ pc[a] = "idle" /\ ~is_processing[a]
        /\ sample_id # ""
        /\ \A f \in {form.nil, form.tb1, form.tb2, form.mit} : validate_input(f)[1]
        /\ \E previous_db_result \in get_previous_result(db, sample_id) :
             LET c == interpretation(TRUE, EntryOrNA(form.op_id),
                         EntryOrNA(form.run_id), sample_id,
                         validate_input(form.nil)[2], validate_input(form.tb1)[2],
                         validate_input(form.tb2)[2], validate_input(form.mit)[2],
                         previous_db_result)
                      @@ [inputs |-> form]
             IN  /\ cur' = [cur EXCEPT ![a] = c]
                 /\ dialogs' = [dialogs EXCEPT ![a] =
                        IF c.warnings # <<>> THEN <<"Interpretation Warnings">>
                        ELSE <<>>]
        /\ is_processing' = [is_processing EXCEPT ![a] = TRUE]
        /\ pc' = [pc EXCEPT ![a] = "run"]
        /\ ret' = [ret EXCEPT ![a] = None]
        /\ batch_out' = [batch_out EXCEPT ![a] = None]
        /\ failures' = [failures EXCEPT ![a] = caught({}, "read")]
        /\ UNCHANGED <<db, log, now, batch,
                       qft, self_test, apps, checked, dashboard, report,
                   db_locked, treeview, debug>>

\* The delta check taken as made on the table the row is appended to.
delta_check_of_row_at_save(c, a, history) ==
    [read_len |-> Len(history), previous_db_result |-> c.previous_db_result,
     warnings |-> c.warnings, app |-> a]

\* What the appended row keeps of its delta check: previous_db_result and
\* warnings are the locals set at lines 349-366, before log_event and
\* save_interpretation_to_db (lines 372-373); nothing is read again.
delta_check_of_row(c, a, history) ==
    [read_len |-> c.read_len, previous_db_result |-> c.previous_db_result,
     warnings |-> c.warnings, app |-> a]

\* Lines 368-402: the interpretation is logged and saved, a single sample's
\* result is displayed, a batch row's result joins processed_results
\* (line 673), and is_processing is cleared.  The dictionary is returned
\* whether the save succeeded or not (lines 373-374, 397).
run_interpretation_finish(a) ==
    /\ a \in apps /\ pc[a] \in {"run", "batch_run"}
    /\ RoomInDb /\ RoomInLog
    /\ log' = Append(log, log_row(cur[a].results_dict))
    /\ db' = save_interpretation_to_db(db, cur[a].results_dict)
    /\ IF db_locked
         THEN /\ checked' = checked
              /\ dialogs' = [dialogs EXCEPT ![a] = Append(@, "Database Error")]
         ELSE /\ checked' = Append(checked, delta_check_of_row(cur[a], a, db))
              /\ dialogs' = dialogs
    /\ ret' = [ret EXCEPT ![a] = cur[a].results_dict]
    /\ is_processing' = [is_processing EXCEPT ![a] = FALSE]
    /\ debug' = [debug EXCEPT ![a] = FALSE]
    /\ cur' = [cur EXCEPT ![a] = None]
    /\ IF cur[a].single
         THEN /\ pc' = [pc EXCEPT ![a] = "idle"]
              /\ UNCHANGED batch
         ELSE /\ batch' = [batch EXCEPT ![a].processed_results =
                              Append(@, cur[a].results_dict)]
              /\ pc' = [pc EXCEPT ![a] = "batch"]
    /\ failures' = [failures EXCEPT ![a] = caught(@, "save")]
    /\ UNCHANGED <<now, batch_out, qft, self_test, apps, dashboard, report,
                   db_locked, treeview>>

\* A second passes.
Tick ==
    /\ now < MaxTime
    /\ now' = now + 1
    /\ UNCHANGED <<db, log, is_processing, pc, cur, ret, dialogs,
                   batch, batch_out, qft, self_test, apps, checked, dashboard, report,
                   db_locked, treeview, debug, failures>>

----------------------------------------------------------------------------
(* Batch import: import_batch, _parse_header, _process_row_data, _process_csv *)

REQUIRED_BATCH_HEADERS == {"sample id", "nil", "tb1", "tb2", "mitogen"}

\* The key of header_map under which each required header is stored.
HeaderKey ==
    ("sample id" :> "sample_id") @@ ("nil" :> "nil") @@ ("tb1" :> "tb1") @@
    ("tb2" :> "tb2") @@ ("mitogen" :> "mitogen")

\* The header rows of the files the model imports.
Headers ==
    { <<"Sample ID", "Nil", "TB1", "TB2", "Mitogen">>,
      <<"Sample ID", "Nil", "TB1", "TB2">>,
      <<"Sample ID", "Nil", "TB1", "TB2", "Notes">> }

\* The data rows of the files the model imports.
DataRows ==
    { <<"S1", "0.10", "1.50", "0.20", "5.0">>,
      <<"S1", "0.10", "0.20", "0.30", "2.0">>,
      <<>>,
      <<"S1", "0.10", "1.50", "abc", "5.0">> }

\* The extensions of the files import_batch is given.
FileExtensions == {".csv", ".xlsx", ".txt"}

\* Header rows in canonical form, in another column order with other
\* letter case, surrounding blanks and an extra column, and without Mitogen.
BatchHeaders ==
    { <<"Sample ID", "Nil", "TB1", "TB2", "Mitogen">>,
      <<"MITOGEN", "Notes", "tb2", "TB1", " Nil ", "SAMPLE ID">>,
      <<"Sample ID", "Nil", "TB1", "TB2">> }

\* Data rows of every kind: panels laid out for the canonical header and
\* for the reordered one, rows without content, with blanks only, without
\* Sample ID, with a text that is no number, and with too few columns.
BatchRows ==
    { <<"S1", "0.10", "1.50", "0.20", "5.0">>,
      <<"S1", "0.10", "0.20", "0.30", "2.0">>,
      <<"5.0", "x", "0.20", "1.50", "0.10", " S1 ">>,
      <<>>,
      <<"", "", "", "", "">>,
      <<" ", "", "", "", "">>,
      <<"", "0.10", "1.50", "0.20", "5.0">>,
      <<"S1", "0.10", "1.50", "abc", "5.0">>,
      <<"S1", "0.10">> }

\* _parse_header that is content with any one required header.
parse_header_any(header_row) ==
    LET lowered_headers == [i \in 1..Len(header_row) |-> Lower(Strip(header_row[i]))]
        found_headers == {lowered_headers[i] : i \in 1..Len(header_row)}
                         \cap REQUIRED_BATCH_HEADERS
    IN  IF found_headers = {} THEN None
        ELSE [k \in {HeaderKey[h] : h \in found_headers} |->
                CHOOSE i \in 1..Len(header_row) :
                    /\ HeaderKey[lowered_headers[i]] = k
                    /\ \A j \in 1..Len(header_row) :
                         (lowered_headers[j] = lowered_headers[i]) => j <= i]

\* _parse_header that takes the columns in the order of the help text,
\* whatever the header cells say.
parse_header_in_order(header_row) ==
    LET lowered_headers == [i \in 1..Len(header_row) |-> Lower(Strip(header_row[i]))]
        found_headers == {lowered_headers[i] : i \in 1..Len(header_row)}
                         \cap REQUIRED_BATCH_HEADERS
        missing_headers == REQUIRED_BATCH_HEADERS \ found_headers
    IN  IF missing_headers # {} THEN None
        ELSE ("sample_id" :> 1) @@ ("nil" :> 2) @@ ("tb1" :> 3) @@
             ("tb2" :> 4) @@ ("mitogen" :> 5)

\* _parse_header (lines 637-648): the position (from 1) of each required
\* header, the last one when a name is repeated; None when one is missing.
parse_header(header_row) ==
    LET lowered_headers == [i \in 1..Len(header_row) |-> Lower(Strip(header_row[i]))]
        found_headers == {lowered_headers[i] : i \in 1..Len(header_row)}
                         \cap REQUIRED_BATCH_HEADERS
        missing_headers == REQUIRED_BATCH_HEADERS \ found_headers
    IN  IF missing_headers # {} THEN None
        ELSE [k \in {HeaderKey[h] : h \in REQUIRED_BATCH_HEADERS} |->
                CHOOSE i \in 1..Len(header_row) :
                    /\ lowered_headers[i] \in REQUIRED_BATCH_HEADERS
                    /\ HeaderKey[lowered_headers[i]] = k
                    /\ \A j \in 1..Len(header_row) :
                         (lowered_headers[j] = lowered_headers[i]) => j <= i]

\* any(row) of line 672: some cell is a non-empty string.
any_cell(row) == \E i \in 1..Len(row) : row[i] # ""

\* row_values of line 684: the values of the cells of a sheet row, '' for a
\* cell without value.  The model writes both as the text "".
row_values_of(row) == [i \in 1..Len(row) |-> row[i]]

\* any(str(v).strip() for v in row_values) of line 688.
any_stripped(row_values) == \E i \in 1..Len(row_values) : Strip(row_values[i]) # ""

\* _process_row_data that takes a row without asking for its Sample ID.
process_row_data_no_id(row_values, header_map, op_id, run_id) ==
    IF \E k \in DOMAIN header_map : header_map[k] > Len(row_values) THEN None
    ELSE LET sample_id == Strip(row_values[header_map["sample_id"]])
             nil_str == Strip(row_values[header_map["nil"]])
             tb1_str == Strip(row_values[header_map["tb1"]])
             tb2_str == Strip(row_values[header_map["tb2"]])
             mit_str == Strip(row_values[header_map["mitogen"]])
         IN  IF ~(IsFloat(nil_str) /\ IsFloat(tb1_str) /\ IsFloat(tb2_str)
                  /\ IsFloat(mit_str)) THEN None
             ELSE [operator_id |-> op_id, run_id |-> run_id,
                   sample_id |-> sample_id, nil |-> ToFloat(nil_str),
                   tb1 |-> ToFloat(tb1_str), tb2 |-> ToFloat(tb2_str),
                   mitogen |-> ToFloat(mit_str)]

\* _process_row_data up to its call of run_interpretation (lines 652-658):
\* None for a row it skips, else input_data.
process_row_data(row_values, header_map, op_id, run_id) ==
    IF \E k \in DOMAIN header_map : header_map[k] > Len(row_values) THEN None
    ELSE LET sample_id == Strip(row_values[header_map["sample_id"]])
             nil_str == Strip(row_values[header_map["nil"]])
             tb1_str == Strip(row_values[header_map["tb1"]])
             tb2_str == Strip(row_values[header_map["tb2"]])
             mit_str == Strip(row_values[header_map["mitogen"]])
         IN  IF sample_id = "" THEN None
             ELSE IF ~(IsFloat(nil_str) /\ IsFloat(tb1_str) /\ IsFloat(tb2_str)
                       /\ IsFloat(mit_str)) THEN None
             ELSE [operator_id |-> op_id, run_id |-> run_id,
                   sample_id |-> sample_id, nil |-> ToFloat(nil_str),
                   tb1 |-> ToFloat(tb1_str), tb2 |-> ToFloat(tb2_str),
                   mitogen |-> ToFloat(mit_str)]

\* What import_batch shows once _process_csv has returned (lines 633-634).
import_batch_dialogs(processed_results, skipped_rows) ==
    IF processed_results # <<>> \/ skipped_rows > 0 THEN <<>>
    ELSE <<"Batch Import">>

\* What _process_csv and _process_excel return without a header map
\* (lines 670 and 686), and for a file without any row.
no_batch(file_extension, header_row) ==
    [file_extension |-> file_extension, header_row |-> header_row,
     rows |-> <<>>, db_len |-> Len(db), returned |-> <<<<>>, 0, 0>>]

\* import_batch on a file with no row at all: _process_csv returns [], 0, 0.
import_batch_empty_file(a) ==
    /\ a \in apps /\ pc[a] = "idle"
    /\ batch_out' = [batch_out EXCEPT ![a] = no_batch(".csv", None)]
    /\ dialogs' = [dialogs EXCEPT ![a] = import_batch_dialogs(<<>>, 0)]
    /\ ret' = [ret EXCEPT ![a] = None]
    /\ failures' = [failures EXCEPT ![a] = {}]
    /\ UNCHANGED <<db, log, now, is_processing, pc, cur, batch, qft, self_test, apps, checked, dashboard, report,
                   db_locked, treeview, debug>>

\* import_batch up to the first row of the file (lines 619-632): a file of
\* another type is refused; else the header is parsed (lines 668-670,
\* 685-686), and without a header map the reader returns [], 0, 0.
import_batch(a, file_extension, header_row) ==
    LET header_map == parse_header(header_row)
    IN  /\ a \in apps /\ pc[a] = "idle"
        /\ IF file_extension \notin {".csv", ".xlsx"}
             THEN /\ batch_out' = [batch_out EXCEPT ![a] = None]
                  /\ dialogs' = [dialogs EXCEPT ![a] = <<"Import Error">>]
                  /\ UNCHANGED <<pc, batch>>
           ELSE IF header_map = None
             THEN /\ batch_out' = [batch_out EXCEPT ![a] =
                        no_batch(file_extension, header_row)]
                  /\ dialogs' = [dialogs EXCEPT ![a] =
                        <<"Header Error">> \o import_batch_dialogs(<<>>, 0)]
                  /\ UNCHANGED <<pc, batch>>
           ELSE /\ batch' = [batch EXCEPT ![a] =
                        [file_extension |-> file_extension,
                         header_row |-> header_row, header_map |-> header_map,
                         op_id |-> EntryOrNA(""), run_id |-> EntryOrNA(""),
                         row_num |-> 1, processed_results |-> <<>>, skipped |-> 0,
                         rows |-> <<>>, db_len |-> Len(db)]]
                /\ pc' = [pc EXCEPT ![a] = "batch"]
                /\ dialogs' = [dialogs EXCEPT ![a] = <<>>]
                /\ batch_out' = [batch_out EXCEPT ![a] = None]
        /\ ret' = [ret EXCEPT ![a] = None]
        /\ failures' = [failures EXCEPT ![a] = {}]
        /\ UNCHANGED <<db, log, now, is_processing, cur, qft, self_test, apps, checked, dashboard, report,
                   db_locked, treeview, debug>>

\* The row loop that gives up the rows behind a row it skipped.
process_row_stop_at_skip(a, row_values, has_content) ==
    /\ batch[a].row_num - 1 < MaxRows
    /\ LET b == batch[a]
           input_data == process_row_data(row_values, b.header_map, b.op_id, b.run_id)
       IN  IF ~has_content
             THEN /\ batch' = [batch EXCEPT ![a].row_num = @ + 1,
                                            ![a].rows = Append(@, row_values)]
                  /\ UNCHANGED <<pc, cur, is_processing, failures>>
           ELSE IF input_data = None \/ b.skipped > 0
             THEN /\ batch' = [batch EXCEPT ![a].row_num = @ + 1,
                                            ![a].skipped = @ + 1,
                                            ![a].rows = Append(@, row_values)]
                  /\ UNCHANGED <<pc, cur, is_processing, failures>>
           ELSE /\ ~is_processing[a]
                /\ batch' = [batch EXCEPT ![a].row_num = @ + 1,
                                          ![a].rows = Append(@, row_values)]
                /\ \E previous_db_result \in
                        get_previous_result(db, input_data.sample_id) :
                     cur' = [cur EXCEPT ![a] =
                        interpretation(FALSE, input_data.operator_id,
                            input_data.run_id, input_data.sample_id,
                            input_data.nil, input_data.tb1, input_data.tb2,
                            input_data.mitogen, previous_db_result)]
                /\ is_processing' = [is_processing EXCEPT ![a] = TRUE]
                /\ pc' = [pc EXCEPT ![a] = "batch_run"]
                /\ failures' = [failures EXCEPT ![a] = caught(@, "read")]
    /\ UNCHANGED <<db, log, now, ret, dialogs, batch_out,
                   qft, self_test, apps, checked, dashboard, report,
                   db_locked, treeview, debug>>

\* One turn of the row loop of _process_csv and _process_excel on a data
\* row (lines 666-675, 683-691): a row without content is passed over, a
\* row _process_row_data rejects is counted as skipped, any other row
\* enters run_interpretation.  batch.rows keeps the rows read so far.
process_row(a, row_values, has_content) ==
    /\ batch[a].row_num - 1 < MaxRows
    /\ LET b == batch[a]
           input_data == process_row_data(row_values, b.header_map, b.op_id, b.run_id)
       IN  IF ~has_content
             THEN /\ batch' = [batch EXCEPT ![a].row_num = @ + 1,
                                            ![a].rows = Append(@, row_values)]
                  /\ UNCHANGED <<pc, cur, is_processing, failures>>
           ELSE IF input_data = None
             THEN /\ batch' = [batch EXCEPT ![a].row_num = @ + 1,
                                            ![a].skipped = @ + 1,
                                            ![a].rows = Append(@, row_values)]
                  /\ UNCHANGED <<pc, cur, is_processing, failures>>
           ELSE /\ ~is_processing[a]
                /\ batch' = [batch EXCEPT ![a].row_num = @ + 1,
                                          ![a].rows = Append(@, row_values)]
                /\ \E previous_db_result \in
                        get_previous_result(db, input_data.sample_id) :
                     cur' = [cur EXCEPT ![a] =
                        interpretation(FALSE, input_data.operator_id,
                            input_data.run_id, input_data.sample_id,
                            input_data.nil, input_data.tb1, input_data.tb2,
                            input_data.mitogen, previous_db_result)]
                /\ is_processing' = [is_processing EXCEPT ![a] = TRUE]
                /\ pc' = [pc EXCEPT ![a] = "batch_run"]
                /\ failures' = [failures EXCEPT ![a] = caught(@, "read")]
    /\ UNCHANGED <<db, log, now, ret, dialogs, batch_out,
                   qft, self_test, apps, checked, dashboard, report,
                   db_locked, treeview, debug>>

\* _process_csv reads a data row (lines 666-675).
process_csv_row(a, row) ==
    /\ a \in apps /\ pc[a] = "batch" /\ batch[a].file_extension = ".csv"
    /\ process_row(a, row, any_cell(row))

\* _process_excel reads a data row (lines 683-691).
process_excel_row(a, row) ==
    /\ a \in apps /\ pc[a] = "batch" /\ batch[a].file_extension = ".xlsx"
    /\ process_row(a, row_values_of(row), any_stripped(row_values_of(row)))

\* max(0, row_num - 1) of lines 676 and 694.
total_rows(row_num) == IF row_num - 1 > 0 THEN row_num - 1 ELSE 0

\* The file is at its end: _process_csv or _process_excel returns (lines
\* 676, 694) and import_batch reports (lines 633-634).
process_csv_return(a) ==
    /\ a \in apps /\ pc[a] = "batch"
    /\ LET b == batch[a]
       IN  /\ batch_out' = [batch_out EXCEPT ![a] =
                [file_extension |-> b.file_extension,
                 header_row |-> b.header_row, rows |-> b.rows,
                 db_len |-> b.db_len,
                 returned |-> <<b.processed_results, b.skipped,
                                total_rows(b.row_num)>>]]
           /\ dialogs' = [dialogs EXCEPT ![a] =
                import_batch_dialogs(b.processed_results, b.skipped)]
    /\ batch' = [batch EXCEPT ![a] = None]
    /\ pc' = [pc EXCEPT ![a] = "idle"]
    /\ UNCHANGED <<db, log, now, is_processing, cur, ret, qft, self_test, apps, checked, dashboard, report,
                   db_locked, treeview, debug, failures>>

----------------------------------------------------------------------------
(* Direct calls of interpret_qft: the self-test *)

\* SELF_TEST_CASES (line 62).
SELF_TEST_CASES ==
    << <<"Clear Positive (TB1)", IU(10), IU(150), IU(20), IU(500), POS>>,
       <<"Clear Positive (TB2)", IU(20), IU(40), IU(200), IU(600), POS>>,
       <<"Clear Negative", IU(10), IU(20), IU(30), IU(200), NEG>>,
       <<"Indeterminate (High Nil)", IU(950), IU(1000), IU(1100), IU(1500), IND>>,
       <<"Indeterminate (Low Mitogen)", IU(20), IU(30), IU(40), IU(60), IND>>,
       <<"Borderline Positive (TB1 near 0.35)", IU(10), IU(45), IU(20), IU(300), POS>>,
       <<"Borderline Negative (TB1 below 0.35)", IU(10), IU(40), IU(20), IU(300), NEG>>,
       <<"Borderline Positive (TB1 meets 25% rule)", IU(100), IU(135), IU(50), IU(400), POS>>,
       <<"Borderline Negative (TB1 fails 25% rule)", IU(160), IU(195), IU(50), IU(400), NEG>> >>

\* The boundary panels of the written specification that the table lacks.
BoundaryPanels ==
    { <<IU(10), IU(44), IU(20), IU(300)>> }

\* Concentrations around every threshold, in hundredths of an IU/mL.
NilGrid == {-20, 10, 160, 800, 801}
TbGrid == {15, 44, 45, 195, 200, 999, 1000, 1200}
MitGrid == {59, 60, 849, 850, 1500}

\* The panels interpret_qft is called with.
Panels ==
    { <<IU(n), IU(a), IU(b), IU(m)>> :
        n \in NilGrid, a \in TbGrid, b \in TbGrid, m \in MitGrid }
    \cup { <<c[2], c[3], c[4], c[5]>> :
            c \in {SELF_TEST_CASES[i] : i \in 1..Len(SELF_TEST_CASES)} }
    \cup BoundaryPanels

\* A direct call interpret_qft(nil, tb1, tb2, mit).
Classify(p) ==
    /\ qft' = interpret_qft(p[1], p[2], p[3], p[4])
    /\ UNCHANGED <<db, log, now, is_processing, pc, cur, ret, dialogs, batch, batch_out, self_test, apps, checked, dashboard, report,
                   db_locked, treeview, debug, failures>>

\* run_self_test (lines 831-843): every case is interpreted and compared
\* with its expected result.
run_self_test(a) ==
    LET actual == [i \in 1..Len(SELF_TEST_CASES) |->
                      interpret_qft(SELF_TEST_CASES[i][2], SELF_TEST_CASES[i][3],
                                    SELF_TEST_CASES[i][4], SELF_TEST_CASES[i][5]).result]
        passed == {i \in 1..Len(SELF_TEST_CASES) : actual[i] = SELF_TEST_CASES[i][6]}
    IN  /\ a \in apps /\ pc[a] = "idle"
        /\ self_test' = [passed_count |-> Cardinality(passed),
                         failed_count |-> Len(SELF_TEST_CASES) - Cardinality(passed),
                         actual |-> actual]
        /\ UNCHANGED <<db, log, now, is_processing, pc, cur, ret, dialogs, batch, batch_out, qft, apps, checked, dashboard, report,
                   db_locked, treeview, debug, failures>>

----------------------------------------------------------------------------
(* Aggregation: query_db_for_reports, update_dashboard, _generate_report *)

\* The seconds of a day: timestamps and range ends are '%Y-%m-%d %H:%M:%S'.
DAY == 86400

\* Day 0 of the clock is 2024-03-01.  strptime(s, '%Y-%m-%d') on the date
\* texts of the model: the day number of each text that is a date.
DateText ==
    ("2024-02-25" :> -5) @@ ("2024-02-26" :> -4) @@ ("2024-03-01" :> 0) @@
    ("2024-03-02" :> 1) @@ ("2024-03-03" :> 2)

\* strptime succeeds.
IsDate(s) == s \in DOMAIN DateText

\* strftime('%Y-%m-%d') of a moment of the clock.
DateStr(t) == CHOOSE s \in DOMAIN DateText : DateText[s] * DAY <= t /\ t < (DateText[s] + 1) * DAY

\* The query with the end of the range at the first second of its last day.
query_db_for_reports_midnight(history, start_date_str, end_date_str) ==
    IF ~(IsDate(start_date_str) /\ IsDate(end_date_str)) THEN <<>>
    ELSE LET start_dt == DateText[start_date_str] * DAY
             end_dt == DateText[end_date_str] * DAY
         IN  SelectSeq(history, LAMBDA row :
                         start_dt <= row.timestamp /\ row.timestamp <= end_dt)

\* The query with ORDER BY timestamp DESC.
query_db_for_reports_desc(history, start_date_str, end_date_str) ==
    IF ~(IsDate(start_date_str) /\ IsDate(end_date_str)) THEN <<>>
    ELSE LET start_dt == DateText[start_date_str] * DAY
             end_dt == DateText[end_date_str] * DAY + (DAY - 1)
             asc == SelectSeq(history, LAMBDA row :
                         start_dt <= row.timestamp /\ row.timestamp <= end_dt)
         IN  [k \in 1..Len(asc) |-> asc[Len(asc) + 1 - k]]

\* query_db_for_reports (lines 142-154): the rows with a timestamp BETWEEN
\* the first second of the start date and the last second of the end date,
\* in ascending timestamp order (the order of the history); [] when a date
\* text does not parse.
query_db_for_reports(history, start_date_str, end_date_str) ==
    IF ~(IsDate(start_date_str) /\ IsDate(end_date_str)) THEN <<>>
    ELSE LET start_dt == DateText[start_date_str] * DAY
             end_dt == DateText[end_date_str] * DAY + (DAY - 1)
         IN  SelectSeq(history, LAMBDA row :
                         start_dt <= row.timestamp /\ row.timestamp <= end_dt)

\* needle in reason (lines 863-864, 903-904), for the reasons interpret_qft
\* writes: the fixed text decides, the formatted number holds no letter.
Contains(reason, needle) ==
    CASE needle = "High Nil" -> reason[1] = "High Nil Control"
      [] needle = "Low Mitogen" -> reason[1] = "Low Mitogen Control"
      [] OTHER -> FALSE

\* The rate as a share of one instead of a percentage.
rate_per_one(count, total) ==
    IF total > 0 THEN <<count, total>> ELSE <<0, 1>>

\* (count / total * 100) if total > 0 else 0 (lines 866, 906), as the
\* fraction <<numerator, denominator>>.
rate(count, total) ==
    IF total > 0 THEN <<count * 100, total>> ELSE <<0, 1>>

\* The counting loop of update_dashboard with elif result == "IND" for the
\* Indeterminate rows.
dashboard_summary_short_ind(data) ==
    LET rows == 1..Len(data)
        pos_count == Cardinality({i \in rows : data[i].result = POS})
        neg_count == Cardinality({i \in rows : data[i].result = NEG})
        ind_count == Cardinality({i \in rows : data[i].result = "IND"})
    IN  [total |-> Len(data), pos |-> pos_count, neg |-> neg_count, ind |-> ind_count,
         ind_high_nil |-> 0, ind_low_mit |-> 0, ind_other |-> ind_count,
         pos_rate |-> rate(pos_count, Len(data)),
         ind_rate |-> rate(ind_count, Len(data))]

\* The counting loop of update_dashboard (lines 856-866).
dashboard_summary(data) ==
    LET rows == 1..Len(data)
        pos_count == Cardinality({i \in rows : data[i].result = POS})
        neg_count == Cardinality({i \in rows : data[i].result = NEG})
        ind_count == Cardinality({i \in rows : data[i].result = IND})
    IN  [total |-> Len(data), pos |-> pos_count, neg |-> neg_count, ind |-> ind_count,
         ind_high_nil |-> Cardinality({i \in rows :
             data[i].result = IND /\ Contains(data[i].reason, "High Nil")}),
         ind_low_mit |-> Cardinality({i \in rows :
             /\ data[i].result = IND /\ ~Contains(data[i].reason, "High Nil")
             /\ Contains(data[i].reason, "Low Mitogen")}),
         ind_other |-> Cardinality({i \in rows :
             /\ data[i].result = IND /\ ~Contains(data[i].reason, "High Nil")
             /\ ~Contains(data[i].reason, "Low Mitogen")}),
         pos_rate |-> rate(pos_count, Len(data)),
         ind_rate |-> rate(ind_count, Len(data))]

\* The counting loop of _generate_report (lines 895-906): the reason of
\* every row is looked at, whatever the row's result.
report_summary(data) ==
    LET rows == 1..Len(data)
        pos_count == Cardinality({i \in rows : data[i].result = POS})
        neg_count == Cardinality({i \in rows : data[i].result = NEG})
        ind_count == Cardinality({i \in rows : data[i].result = IND})
    IN  [total |-> Len(data), pos |-> pos_count, neg |-> neg_count, ind |-> ind_count,
         ind_high_nil |-> Cardinality({i \in rows :
             Contains(data[i].reason, "High Nil")}),
         ind_low_mit |-> Cardinality({i \in rows :
             /\ ~Contains(data[i].reason, "High Nil")
             /\ Contains(data[i].reason, "Low Mitogen")}),
         ind_other |-> Cardinality({i \in rows :
             /\ ~Contains(data[i].reason, "High Nil")
             /\ ~Contains(data[i].reason, "Low Mitogen")}),
         pos_rate |-> rate(pos_count, Len(data)),
         neg_rate |-> rate(neg_count, Len(data)),
         ind_rate |-> rate(ind_count, Len(data))]

\* update_dashboard (lines 849-875) with dashboard_days = days_range: the
\* range ends today and starts days_range - 1 days earlier.
update_dashboard(a, days_range) ==
    LET end_date == now
        start_date == end_date - (days_range - 1) * DAY
        start_date_str == DateStr(start_date)
        end_date_str == DateStr(end_date)
        data == query_db_for_reports(db, start_date_str, end_date_str)
    IN  /\ a \in apps /\ pc[a] = "idle"
        /\ dashboard' = [range |-> <<start_date_str, end_date_str>>, data |-> data,
                         summary |-> dashboard_summary(data)]
        /\ dialogs' = [dialogs EXCEPT ![a] = <<>>]
        /\ UNCHANGED <<db, log, now, is_processing, pc, cur, ret, batch, batch_out, qft, self_test, apps, checked, report,
                   db_locked, treeview, debug, failures>>

\* _generate_report (lines 890-918) up to the call of its writer: a Date
\* Error dialog for a text that is no date, a No Data dialog and nothing
\* else for a query without rows, else the numbers handed to
\* _write_summary_pdf or _write_summary_excel.  data is what the query
\* returned; it is never None, so the branch of line 893 is never taken.
generate_report(a, start_date_str, end_date_str) ==
    LET data == query_db_for_reports(db, start_date_str, end_date_str)
        date_error == IF IsDate(start_date_str) /\ IsDate(end_date_str)
                        THEN <<>> ELSE <<"Date Error">>
    IN  /\ a \in apps /\ pc[a] = "idle"
        /\ IF data = <<>>
             THEN /\ report' = [range |-> <<start_date_str, end_date_str>>, data |-> data,
                                summary |-> None]
                  /\ dialogs' = [dialogs EXCEPT ![a] = date_error \o <<"No Data">>]
             ELSE /\ report' = [range |-> <<start_date_str, end_date_str>>, data |-> data,
                                summary |-> report_summary(data)]
                  /\ dialogs' = [dialogs EXCEPT ![a] = <<>>]
        /\ UNCHANGED <<db, log, now, is_processing, pc, cur, ret, batch, batch_out, qft, self_test, apps, checked, dashboard,
                   db_locked, treeview, debug, failures>>

\* The values of dashboard_days the model configures.
DashboardDays == {1, 7}

\* The texts entered as start and end date of a report.
ReportDates == {"2024-03-01", "2024-03-02", "2024-03-03", "03/02/2024"}

\* A row of the history as an interpretation of panel p saved at ts wrote it.
history_row(ts, sample_id, p) ==
    LET d == interpret_qft(p[1], p[2], p[3], p[4])
    IN  [timestamp |-> ts, operator_id |-> "N/A", sample_id |-> sample_id,
         run_id |-> "N/A", nil_value |-> d.input_nil, tb1_value |-> d.input_tb1,
         tb2_value |-> d.input_tb2, mit_value |-> d.input_mit,
         result |-> d.result, reason |-> d.reason]

\* The panels of rows 1, 3, 4 and 5 of SELF_TEST_CASES: Positive, Negative,
\* Indeterminate by high nil and Indeterminate by low mitogen.
HistoryPanels ==
    {<<SELF_TEST_CASES[i][2], SELF_TEST_CASES[i][3], SELF_TEST_CASES[i][4],
       SELF_TEST_CASES[i][5]>> : i \in {1, 3, 4, 5}}

\* The moments rows were saved at: the last second of day 0, the first and
\* the last second of day 1, the first second of day 2.
HistoryTimes == {DAY - 1, DAY, 2 * DAY - 1, 2 * DAY}

\* The rows a history may hold.
HistoryRows ==
    {history_row(ts, "S1", p) : ts \in HistoryTimes, p \in HistoryPanels}

\* The histories of at most MaxHist rows, in the order they were saved.
Histories ==
    UNION {{h \in [1..n -> HistoryRows] :
              \A i \in 1..(n - 1) : h[i].timestamp <= h[i + 1].timestamp} :
           n \in 0..MaxHist}

\* Ten rows of day 1: six Positive, three Negative, one Indeterminate by
\* low mitogen.
ExampleHistory ==
    [i \in 1..10 |->
        history_row(DAY + i, "S1",
            LET c == SELF_TEST_CASES[IF i <= 6 THEN 1 ELSE IF i <= 9 THEN 3 ELSE 5]
            IN  <<c[2], c[3], c[4], c[5]>>)]

\* The moments the application runs at: in day 1 and in day 2.
Nows == {2 * DAY - 1, 2 * DAY + 7}

----------------------------------------------------------------------------
(* The history window, a second instance, a call in progress, a locked file *)

\* LIMIT 500 of line 974.
HISTORY_LIMIT == 500

\* sample_id LIKE '%search_id%' (line 968), on the sample ids of the model,
\* none of which is part of another.
Like(sample_id, search_id) == sample_id = search_id

\* The WHERE clause of load_history (lines 966-973); an entry left empty
\* sets no condition.
history_filter(row, search_id, search_date) ==
    /\ Strip(search_id) # "" => Like(row.sample_id, Strip(search_id))
    /\ Strip(search_date) # "" => DateStr(row.timestamp) = Strip(search_date)

\* The orders ORDER BY timestamp DESC may give the rowids of a set: SQL
\* leaves the order of rows of equal timestamp open.
DescOrders(history, ids) ==
    {o \in [1..Cardinality(ids) -> ids] :
        /\ \A i, j \in 1..Cardinality(ids) : i # j => o[i] # o[j]
        /\ \A i \in 1..(Cardinality(ids) - 1) :
             history[o[i]].timestamp >= history[o[i + 1]].timestamp}

\* load_history (lines 962-992): the tree is emptied; a date entry that
\* is no date gives an Invalid Date dialog; else the matching rows are
\* shown, latest first, at most 500, or one line saying there are none.
\* A read that sqlite3 refuses gives a Database Error dialog.
load_history(a, search_id, search_date) ==
    LET ids == {i \in 1..Len(db) : history_filter(db[i], search_id, search_date)}
    IN  /\ IF Strip(search_date) # "" /\ ~IsDate(Strip(search_date))
             THEN /\ treeview' = <<>>
                  /\ dialogs' = [dialogs EXCEPT ![a] = <<"Invalid Date">>]
           ELSE IF db_locked
             THEN /\ treeview' = <<>>
                  /\ dialogs' = [dialogs EXCEPT ![a] = <<"Database Error">>]
           ELSE IF ids = {}
             THEN /\ treeview' = << <<"No records">> >>
                  /\ dialogs' = [dialogs EXCEPT ![a] = <<>>]
           ELSE /\ \E o \in DescOrders(db, ids) :
                     treeview' = [k \in 1..(IF Cardinality(ids) < HISTORY_LIMIT
                                              THEN Cardinality(ids) ELSE HISTORY_LIMIT)
                                    |-> db[o[k]]]
                /\ dialogs' = [dialogs EXCEPT ![a] = <<>>]
        /\ UNCHANGED <<db, log, now, is_processing, cur, ret, batch, batch_out,
                       qft, self_test, apps, checked, dashboard, report,
                       db_locked, debug, failures>>

\* show_history_window (lines 514-531): the window opens with the latest
\* rows of the whole history and holds the grab until it is closed.
show_history_window(a) ==
    /\ a \in apps /\ pc[a] = "idle"
    /\ load_history(a, "", "")
    /\ pc' = [pc EXCEPT ![a] = "history"]

\* The Search / Filter button of the history window (line 521).
search_history(a, search_id, search_date) ==
    /\ a \in apps /\ pc[a] = "history"
    /\ load_history(a, search_id, search_date)
    /\ pc' = pc

\* The Close button of the history window (line 523): history_win.destroy.
close_history_window(a) ==
    /\ a \in apps /\ pc[a] = "history"
    /\ treeview' = None
    /\ pc' = [pc EXCEPT ![a] = "idle"]
    /\ UNCHANGED <<db, log, now, is_processing, cur, ret, dialogs, batch, batch_out,
                   qft, self_test, apps, checked, dashboard, report,
                   db_locked, debug, failures>>

\* The report window is closed (lines 877-888): what _generate_report
\* computed is gone with its call.
close_report_window(a) ==
    /\ a \in apps /\ pc[a] = "idle" /\ report # None
    /\ report' = None
    /\ dialogs' = [dialogs EXCEPT ![a] = <<>>]
    /\ UNCHANGED <<db, log, now, is_processing, pc, cur, ret, batch, batch_out,
                   qft, self_test, apps, checked, dashboard,
                   db_locked, treeview, debug, failures>>

\* What the Sample ID and Date entries of the history window may hold.
SearchIds == {"S1"}
SearchDates == {"03/02/2024"}

\* QFTApp.__init__ (lines 189-194) of another instance on the same files:
\* is_processing is False and init_db (lines 118-127) creates the table and
\* its indexes only if they are missing, so the rows stay as they are.
QFTApp_init(a) ==
    /\ a \notin apps
    /\ apps' = apps \cup {a}
    /\ is_processing' = [is_processing EXCEPT ![a] = FALSE]
    /\ UNCHANGED <<db, log, now, pc, cur, ret, dialogs, batch, batch_out,
                   qft, self_test, checked, dashboard, report,
                   db_locked, treeview, debug, failures>>

\* The test of line 330 that lets every call through.
already_in_progress_never(a) == FALSE

\* The test of line 330: self.is_processing.
already_in_progress(a) == is_processing[a]

\* run_interpretation called for a single sample while the instance shows
\* the Interpretation Warnings dialog of an interpretation in flight (line
\* 368, where Tk handles events): with is_processing set the call prints
\* its DEBUG line and returns None (line 330); a call let through would
\* read, interpret and take the place of the one in flight.
run_interpretation_reentered(a, form) ==
    /\ a \in apps /\ pc[a] = "run"
    /\ Strip(form.sample_id) # ""
    /\ \A f \in {form.nil, form.tb1, form.tb2, form.mit} : validate_input(f)[1]
    /\ IF already_in_progress(a)
         THEN /\ debug' = [debug EXCEPT ![a] = TRUE]
              /\ ret' = [ret EXCEPT ![a] = None]
              /\ UNCHANGED <<cur, dialogs, failures>>
         ELSE /\ \E previous_db_result \in get_previous_result(db, Strip(form.sample_id)) :
                   LET c == interpretation(TRUE, EntryOrNA(form.op_id),
                               EntryOrNA(form.run_id), Strip(form.sample_id),
                               validate_input(form.nil)[2], validate_input(form.tb1)[2],
                               validate_input(form.tb2)[2], validate_input(form.mit)[2],
                               previous_db_result)
                            @@ [inputs |-> form]
                   IN  /\ cur' = [cur EXCEPT ![a] = c]
                       /\ dialogs' = [dialogs EXCEPT ![a] =
                              IF c.warnings # <<>> THEN <<"Interpretation Warnings">>
                              ELSE <<>>]
              /\ ret' = [ret EXCEPT ![a] = None]
              /\ debug' = debug
              /\ failures' = [failures EXCEPT ![a] = caught({}, "read")]
    /\ UNCHANGED <<db, log, now, is_processing, pc, batch, batch_out,
                   qft, self_test, apps, checked, dashboard, report,
                   db_locked, treeview>>

\* Another process takes or gives up a lock on the history file: while it
\* holds it, sqlite3 raises sqlite3.OperationalError in this program.
lock_db ==
    /\ db_locked' = ~db_locked
    /\ UNCHANGED <<db, log, now, is_processing, pc, cur, ret, dialogs, batch,
                   batch_out, qft, self_test, apps, checked, dashboard, report,
                   treeview, debug, failures>>

\* The entry fields of the instances that share a history: a Positive and
\* a Negative panel of sample S1, and a form without Sample ID.
SharedForms ==
    { Form("S1", <<"0.10", "1.50", "0.20", "5.0">>),
      Form("S1", <<"0.10", "0.20", "0.30", "2.0">>),
      Form("", <<"0.10", "1.50", "0.20", "5.0">>) }

\* The data rows of the table that is imported from both file types: a
\* Positive panel of sample S1, a row of empty cells and a row whose first
\* cell holds a blank.
ReaderRows ==
    { <<"S1", "0.10", "1.50", "0.20", "5.0">>,
      <<"", "", "", "", "">>,
      <<" ", "", "", "", "">> }

\* The data rows of the file imported from while the history file is
\* locked now and then: a Positive and a Negative panel of sample S1.
FailureRows ==
    { <<"S1", "0.10", "1.50", "0.20", "5.0">>,
      <<"S1", "0.10", "0.20", "0.30", "2.0">> }

\* The entry fields while every operation is tried: a Negative panel.
HistoryForms == { Form("S1", <<"0.10", "0.20", "0.30", "2.0">>) }

\* The data rows of the file an instance imports meanwhile.
SharedRows == { <<"S1", "0.10", "1.50", "0.20", "5.0">> }

----------------------------------------------------------------------------
(* Specifications *)

\* One application instance on an empty history.
Init ==
    /\ db = <<>>
    /\ log = <<>>
    /\ checked = <<>>
    /\ now = 0
    /\ apps = {"A"}
    /\ is_processing = [a \in AllApps |-> FALSE]
    /\ pc = [a \in AllApps |-> "idle"]
    /\ cur = [a \in AllApps |-> None]
    /\ ret = [a \in AllApps |-> None]
    /\ dialogs = [a \in AllApps |-> <<>>]
    /\ batch = [a \in AllApps |-> None]
    /\ batch_out = [a \in AllApps |-> None]
    /\ qft = None
    /\ self_test = None
    /\ dashboard = None
    /\ report = None
    /\ db_locked = FALSE
    /\ treeview = None
    /\ debug = [a \in AllApps |-> FALSE]
    /\ failures = [a \in AllApps |-> {}]

Next ==
    \/ \E a \in AllApps, form \in Forms : run_interpretation_rejected(a, form)
    \/ \E a \in AllApps, form \in Forms : run_interpretation_begin(a, form)
    \/ \E a \in AllApps : run_interpretation_finish(a)
    \/ \E a \in AllApps : import_batch_empty_file(a)
    \/ \E a \in AllApps, header_row \in Headers : import_batch(a, ".csv", header_row)
    \/ \E a \in AllApps, row \in DataRows : process_csv_row(a, row)
    \/ \E a \in AllApps : process_csv_return(a)
    \/ Tick

Spec == Init /\ [][Next]_vars

\* The decision engine alone: interpret_qft called directly, and by the self-test.
NextClassify ==
    \/ \E p \in Panels : Classify(p)
    \/ \E a \in AllApps : run_self_test(a)

SpecClassify == Init /\ [][NextClassify]_vars

\* Batch import alone, from files of both types with rows of every kind.
NextBatch ==
    \/ \E a \in AllApps : import_batch_empty_file(a)
    \/ \E a \in AllApps, file_extension \in FileExtensions, header_row \in BatchHeaders :
          import_batch(a, file_extension, header_row)
    \/ \E a \in AllApps, row \in BatchRows : process_csv_row(a, row)
    \/ \E a \in AllApps, row \in BatchRows : process_excel_row(a, row)
    \/ \E a \in AllApps : run_interpretation_finish(a)
    \/ \E a \in AllApps : process_csv_return(a)

SpecBatch == Init /\ [][NextBatch]_vars

\* The application started on a history that earlier sessions wrote.
InitAggregate ==
    /\ db \in Histories \cup {ExampleHistory}
    /\ now \in Nows
    /\ \A i \in 1..Len(db) : db[i].timestamp <= now
    /\ log = <<>>
    /\ checked = <<>>
    /\ apps = {"A"}
    /\ is_processing = [a \in AllApps |-> FALSE]
    /\ pc = [a \in AllApps |-> "idle"]
    /\ cur = [a \in AllApps |-> None]
    /\ ret = [a \in AllApps |-> None]
    /\ dialogs = [a \in AllApps |-> <<>>]
    /\ batch = [a \in AllApps |-> None]
    /\ batch_out = [a \in AllApps |-> None]
    /\ qft = None
    /\ self_test = None
    /\ dashboard = None
    /\ report = None
    /\ db_locked = FALSE
    /\ treeview = None
    /\ debug = [a \in AllApps |-> FALSE]
    /\ failures = [a \in AllApps |-> {}]

\* The aggregation alone: the dashboard and the summary report.
NextAggregate ==
    \/ \E a \in AllApps, days_range \in DashboardDays : update_dashboard(a, days_range)
    \/ \E a \in AllApps, start_date_str \in ReportDates, end_date_str \in ReportDates :
          generate_report(a, start_date_str, end_date_str)

SpecAggregate == InitAggregate /\ [][NextAggregate]_vars

\* The same table is imported as a .csv file by the first instance and
\* then as an .xlsx file by the second.
NextReaders ==
    \/ QFTApp_init("B")
    \/ batch_out["A"] = None
         /\ import_batch("A", ".csv", <<"Sample ID", "Nil", "TB1", "TB2", "Mitogen">>)
    \/ \E row \in ReaderRows : process_csv_row("A", row)
    \/ batch_out["A"] # None /\ pc["A"] = "idle" /\ batch_out["B"] = None
         /\ import_batch("B", ".xlsx", <<"Sample ID", "Nil", "TB1", "TB2", "Mitogen">>)
    \/ \E row \in ReaderRows : process_excel_row("B", row)
    \/ \E a \in AllApps : run_interpretation_finish(a)
    \/ \E a \in AllApps : process_csv_return(a)

SpecReaders == Init /\ [][NextReaders]_vars

\* Two instances on one history file that submit single samples, in any
\* interleaving; the second is also called while a call is in progress.
NextShared ==
    \/ \E a \in AllApps : QFTApp_init(a)
    \/ \E a \in AllApps, form \in SharedForms : run_interpretation_rejected(a, form)
    \/ \E a \in AllApps, form \in SharedForms : run_interpretation_begin(a, form)
    \/ \E form \in SharedForms : run_interpretation_reentered("B", form)
    \/ \E a \in AllApps : run_interpretation_finish(a)

SpecShared == Init /\ [][NextShared]_vars

\* Every operation on the history: the first instance interprets single
\* samples, imports a file, updates its dashboard, makes a report and
\* browses the history; a second instance submits a single sample while
\* the first is between its read and its save.
NextHistory ==
    \/ QFTApp_init("B")
    \/ \E form \in HistoryForms : run_interpretation_begin("A", form)
    \/ \E form \in HistoryForms :
          pc["A"] \in {"run", "batch_run"} /\ run_interpretation_begin("B", form)
    \/ \E a \in AllApps : run_interpretation_finish(a)
    \/ import_batch("A", ".csv", <<"Sample ID", "Nil", "TB1", "TB2", "Mitogen">>)
    \/ \E row \in SharedRows : process_csv_row("A", row)
    \/ process_csv_return("A")
    \/ update_dashboard("A", 1)
    \/ generate_report("A", "2024-03-01", "2024-03-01")
    \/ close_report_window("A")
    \/ show_history_window("A")
    \/ \E search_id \in SearchIds, search_date \in SearchDates :
          search_history("A", search_id, search_date)
    \/ close_history_window("A")

SpecHistory == Init /\ [][NextHistory]_vars

\* One instance on a history file that another process locks now and then.
NextFailures ==
    \/ lock_db
    \/ \E a \in AllApps, form \in SharedForms : run_interpretation_begin(a, form)
    \/ \E a \in AllApps : run_interpretation_finish(a)
    \/ \E a \in AllApps :
          import_batch(a, ".csv", <<"Sample ID", "Nil", "TB1", "TB2", "Mitogen">>)
    \/ \E a \in AllApps, row \in FailureRows : process_csv_row(a, row)
    \/ \E a \in AllApps : process_csv_return(a)

SpecFailures == Init /\ [][NextFailures]_vars

----------------------------------------------------------------------------
(* The decision engine: claims C1 - C5, checked under SpecClassify *)

\* A direct call of interpret_qft has returned.
Called == qft # None

\* The antigen delta d passes the 0.35 threshold and the 25% rule for nil,
\* written out in units: d >= 0.35, and d >= 0.25*nil when nil >= 0, d >= 0 else.
AntigenQualifies(d, nil) ==
    /\ d >= 140
    /\ IF nil >= 0 THEN 4 * d >= nil ELSE d >= 0

\* C1: a panel with nil > 8.0 is Indeterminate with a "High Nil" reason,
\* whatever tb1, tb2 and mitogen are; it is never Positive or Negative.
C1_HighNilIndeterminate ==
    (Called /\ qft.input_nil > 3200) =>
        /\ qft.result = IND
        /\ qft.result \notin {POS, NEG}
        /\ qft.reason = <<"High Nil Control", qft.input_nil>>

\* C1 happens: a high-nil panel whose TB1 delta passes both antigen tests
\* and whose mitogen delta is valid has been interpreted.
C1_Witness ==
    /\ Called /\ qft.input_nil > 3200
    /\ AntigenQualifies(qft.input_tb1 - qft.input_nil, qft.input_nil)
    /\ qft.input_mit - qft.input_nil >= 200
    /\ qft.result = IND

\* C2: with nil <= 8.0, tb1 - nil >= 0.35 and tb1 - nil >= 0.25*nil the
\* result is Positive and the reason cites TB1, also when TB2 qualifies.
C2_Tb1PositiveFirst ==
    (/\ Called /\ qft.input_nil <= 3200
     /\ qft.input_tb1 - qft.input_nil >= 140
     /\ 4 * (qft.input_tb1 - qft.input_nil) >= qft.input_nil) =>
        /\ qft.result = POS
        /\ qft.reason = <<"TB1 Antigen positive", qft.input_tb1 - qft.input_nil>>

\* C2 happens: both antigens qualify and the TB1 reason is reported.
C2_Witness ==
    /\ Called /\ qft.input_nil <= 3200
    /\ AntigenQualifies(qft.input_tb1 - qft.input_nil, qft.input_nil)
    /\ AntigenQualifies(qft.input_tb2 - qft.input_nil, qft.input_nil)
    /\ qft.input_tb2 > qft.input_tb1
    /\ qft.reason[1] = "TB1 Antigen positive"

\* C3: with nil <= 8.0 and TB1 not positive, the result is Positive citing
\* TB2 if and only if tb2 - nil >= 0.35 and tb2 - nil >= nilQuarter.
C3_Tb2PositiveIff ==
    (/\ Called /\ qft.input_nil <= 3200
     /\ ~AntigenQualifies(qft.input_tb1 - qft.input_nil, qft.input_nil)) =>
        ( (qft.result = POS /\ qft.reason[1] = "TB2 Antigen positive")
          <=> AntigenQualifies(qft.input_tb2 - qft.input_nil, qft.input_nil) )
        /\ (qft.result = POS =>
              qft.reason = <<"TB2 Antigen positive", qft.input_tb2 - qft.input_nil>>)
        /\ qft.nil_25 = (IF qft.input_nil >= 0 THEN qft.input_nil \div 4 ELSE 0)

\* C3 happens: TB1 is not positive, TB2 reaches 0.35 but stays under a
\* quarter of nil, and the panel is not Positive.
C3_Witness ==
    /\ Called /\ qft.input_nil <= 3200
    /\ ~AntigenQualifies(qft.input_tb1 - qft.input_nil, qft.input_nil)
    /\ qft.input_tb2 - qft.input_nil >= 140
    /\ 4 * (qft.input_tb2 - qft.input_nil) < qft.input_nil
    /\ qft.result # POS

\* C4: with nil <= 8.0 and neither antigen positive, the result is
\* Negative if mitogen - nil >= 0.5 and Indeterminate "Low Mitogen Control"
\* otherwise; Negative is never returned with mitogen - nil < 0.5.
C4_MitogenDecides ==
    /\ (/\ Called /\ qft.input_nil <= 3200
        /\ ~AntigenQualifies(qft.input_tb1 - qft.input_nil, qft.input_nil)
        /\ ~AntigenQualifies(qft.input_tb2 - qft.input_nil, qft.input_nil)) =>
            IF qft.input_mit - qft.input_nil >= 200
              THEN /\ qft.result = NEG
                   /\ qft.reason = <<"TB Antigens negative, Mitogen control valid">>
              ELSE /\ qft.result = IND
                   /\ qft.reason = <<"Low Mitogen Control",
                                     qft.input_mit - qft.input_nil>>
    /\ (Called /\ qft.result = NEG) => qft.input_mit - qft.input_nil >= 200

\* C4 happens: neither antigen is positive and the mitogen delta is exactly
\* 0.5, which is Negative.
C4_Witness ==
    /\ Called /\ qft.input_nil <= 3200
    /\ ~AntigenQualifies(qft.input_tb1 - qft.input_nil, qft.input_nil)
    /\ ~AntigenQualifies(qft.input_tb2 - qft.input_nil, qft.input_nil)
    /\ qft.input_mit - qft.input_nil = 200
    /\ qft.result = NEG

\* The four inputs of the last direct call, in hundredths of an IU/mL.
CalledWith(nil, tb1, tb2, mit) ==
    /\ Called
    /\ <<qft.input_nil, qft.input_tb1, qft.input_tb2, qft.input_mit>>
         = <<4 * nil, 4 * tb1, 4 * tb2, 4 * mit>>

\* C5: the comparisons are inclusive and both antigen conditions are
\* required: every case of the self-test table gets its listed category,
\* nil=0.10 tb1=0.45 is Positive by TB1, nil=0.10 tb1=0.44 with a valid
\* mitogen is Negative, and nil=1.60 tb1=1.95 tb2=0.50 mitogen=4.0 is Negative.
C5_BoundaryCases ==
    /\ self_test # None =>
          /\ self_test.failed_count = 0
          /\ self_test.passed_count = 9
          /\ self_test.actual = <<POS, POS, NEG, IND, IND, POS, NEG, POS, NEG>>
    /\ CalledWith(10, 45, 20, 300) =>
          /\ qft.result = POS
          /\ qft.reason = <<"TB1 Antigen positive", 140>>
    /\ CalledWith(10, 44, 20, 300) => qft.result = NEG
    /\ CalledWith(160, 195, 50, 400) => qft.result = NEG

\* C5 happens: the self-test has run and the panel that meets 0.35 but
\* fails the 25% rule has been interpreted.
C5_Witness ==
    /\ self_test # None
    /\ CalledWith(160, 195, 50, 400)

----------------------------------------------------------------------------
(* Purity, the delta check and the latest row: claims C6 - C9, under Spec *)

\* The dictionary d is what interpret_qft makes of its own four inputs in
\* the state at hand, and its result is one of the three categories.
IsInterpretationOf(d, nil, tb1, tb2, mit) ==
    LET r == interpret_qft(nil, tb1, tb2, mit)
    IN  /\ d.result = r.result /\ d.reason = r.reason
        /\ d.result \in {POS, NEG, IND}

\* The dictionary d of a run_interpretation is right about its inputs.
DictRight(d) ==
    /\ IsInterpretationOf(d, d.input_nil, d.input_tb1, d.input_tb2, d.input_mit)
    /\ d.tb1_nil = d.input_tb1 - d.input_nil
    /\ d.tb2_nil = d.input_tb2 - d.input_nil
    /\ d.mit_nil = d.input_mit - d.input_nil
    /\ d.nil_25 = interpret_qft(d.input_nil, d.input_tb1, d.input_tb2,
                                d.input_mit).nil_25

\* C6: classify is a pure total function: whatever the history holds and
\* whatever calls came in between, every result stored or returned is what
\* the same four inputs give now, it is one of the three categories, and
\* the call itself leaves the history and the log as they were.
C6_PureTotal ==
    /\ [](\A i \in 1..Len(db) :
            IsInterpretationOf(db[i], db[i].nil_value, db[i].tb1_value,
                               db[i].tb2_value, db[i].mit_value))
    /\ [](\A a \in apps :
            /\ cur[a] # None => DictRight(cur[a].results_dict)
            /\ ret[a] # None => DictRight(ret[a]))
    /\ [][\A a \in apps : (cur[a] = None /\ cur'[a] # None) =>
                              (db' = db /\ log' = log)]_vars

\* C6 happens: a panel is in flight that the history already holds with the
\* same result, behind a row of another result.
C6_Witness ==
    /\ Len(db) = 2
    /\ db[2].result # db[1].result
    /\ \E a \in apps :
         /\ cur[a] # None
         /\ cur[a].results_dict.input_nil = db[1].nil_value
         /\ cur[a].results_dict.input_tb1 = db[1].tb1_value
         /\ cur[a].results_dict.input_tb2 = db[1].tb2_value
         /\ cur[a].results_dict.input_mit = db[1].mit_value
         /\ cur[a].results_dict.result = db[1].result

\* The delta check of the interpretation that wrote row i was significant.
Significant(c) == \E k \in 1..Len(c.warnings) : c.warnings[k][1] = "DELTA CHECK"

\* What a delta check (its record c) found for a sample and a new category,
\* against the rows the table held when it read.
DeltaCheckRight(c, sample_id, new_category) ==
    LET prior == {j \in 1..c.read_len : db[j].sample_id = sample_id}
    IN  /\ (prior = {}) <=> (c.previous_db_result = None)
        /\ Significant(c) <=>
             (prior # {} /\ c.previous_db_result[1] # new_category)
        /\ \A k \in 1..Len(c.warnings) :
             c.warnings[k][1] = "DELTA CHECK" =>
                /\ c.warnings[k][2] = c.previous_db_result[1]
                /\ c.warnings[k][4] = new_category

\* C7: the delta check is significant if and only if the sample has a
\* prior row and that row's category differs from the new one; over the
\* three categories check_significant_change is inequality, and symmetric.
C7_DeltaIffDifferent ==
    /\ \A i \in 1..Len(db) :
         DeltaCheckRight(checked[i], db[i].sample_id, db[i].result)
    /\ \A a \in apps : cur[a] # None =>
         DeltaCheckRight(cur[a], cur[a].results_dict.sample_id,
                         cur[a].results_dict.result)
    /\ \A p \in {POS, NEG, IND}, c \in {POS, NEG, IND} :
         /\ check_significant_change(p, c) = (p # c)
         /\ check_significant_change(p, c) = check_significant_change(c, p)

\* C7 happens: a sample went from Indeterminate to Negative and the delta
\* check was significant.
C7_Witness ==
    \E i \in 1..Len(db) :
        /\ Significant(checked[i])
        /\ checked[i].previous_db_result[1] = IND /\ db[i].result = NEG

\* The greatest timestamp among the rows of sample_id in the first n rows.
IsLatestIn(n, sample_id, seen) ==
    \E j \in 1..n :
        /\ db[j].sample_id = sample_id
        /\ seen = <<db[j].result, db[j].timestamp>>
        /\ \A k \in 1..n :
             db[k].sample_id = sample_id => db[k].timestamp <= db[j].timestamp

\* The record c of a delta check compared with a row that was latest for
\* the sample among the rows present when it read.
ReadBeforeAppend(c, sample_id) ==
    \/ c.previous_db_result = None
         /\ \A j \in 1..c.read_len : db[j].sample_id # sample_id
    \/ c.previous_db_result # None
         /\ IsLatestIn(c.read_len, sample_id, c.previous_db_result)

\* C8: every interpretation, single or batch row, reads the latest row of
\* its sample before it appends: the row it wrote lies behind every row it
\* read, and what the delta check compared with was latest before it.
C8_ReadBeforeAppend ==
    /\ \A i \in 1..Len(db) :
         /\ checked[i].read_len < i
         /\ ReadBeforeAppend(checked[i], db[i].sample_id)
    /\ \A a \in apps : cur[a] # None =>
         /\ cur[a].read_len <= Len(db)
         /\ ReadBeforeAppend(cur[a], cur[a].results_dict.sample_id)

\* C8 happens: a third interpretation of a sample with two earlier rows of
\* different seconds and categories is in flight, one of them a batch row.
C8_Witness ==
    /\ Len(db) = 2
    /\ db[1].sample_id = db[2].sample_id
    /\ db[1].timestamp < db[2].timestamp
    /\ db[1].result # db[2].result
    /\ \E a \in apps :
         /\ pc[a] = "batch_run"
         /\ cur[a].results_dict.sample_id = db[1].sample_id
         /\ cur[a].previous_db_result = <<db[2].result, db[2].timestamp>>

\* The row of sample_id appended last among those of greatest timestamp.
LastWrittenLatest(sample_id) ==
    CHOOSE i \in 1..Len(db) :
        /\ db[i].sample_id = sample_id
        /\ \A j \in 1..Len(db) : db[j].sample_id = sample_id =>
              \/ db[j].timestamp < db[i].timestamp
              \/ db[j].timestamp = db[i].timestamp /\ j <= i

\* C9: latest(sampleId) returns the row of greatest timestamp, and of
\* several such rows the one appended last.
C9_LastWrittenWins ==
    \A s \in {db[i].sample_id : i \in 1..Len(db)} :
        get_previous_result(db, s) =
            { <<db[LastWrittenLatest(s)].result, db[LastWrittenLatest(s)].timestamp>> }

----------------------------------------------------------------------------
(* A batch without its header: claim C10, under Spec *)

\* The last import was of a file whose header lacks a required name.
HeaderRejected(a) ==
    /\ batch_out[a] # None
    /\ \E h \in {"sample id", "nil", "tb1", "tb2", "mitogen"} :
         \A i \in 1..Len(batch_out[a].header_row) :
            Lower(Strip(batch_out[a].header_row[i])) # h

\* What _process_csv returns for a complete header followed by no data row.
NoDataRowsOutcome == << <<>>, 0, 0 >>

\* C10: a header without one of the five required names aborts the batch,
\* and the caller gets an outcome it can tell from that of a batch with a
\* complete header and no data rows.
C10_HeaderErrorSurfaced ==
    \A a \in apps :
        HeaderRejected(a) => batch_out[a].returned # NoDataRowsOutcome

\* A batch with a complete header and no data row has returned.
C10_EmptyBatchReturned ==
    \E a \in apps :
        /\ batch_out[a] # None
        /\ ~HeaderRejected(a)
        /\ batch_out[a].returned = NoDataRowsOutcome

\* A header without a required name aborts the batch: nothing is read,
\* interpreted or appended, and a Header Error dialog is shown.
C10_HeaderAborts ==
    [][\A a \in apps :
         (batch_out[a] = None /\ batch_out'[a] # None /\ HeaderRejected(a)') =>
            /\ db' = db /\ log' = log /\ cur' = cur /\ pc'[a] = "idle"
            /\ batch_out'[a].returned[1] = <<>>]_vars

----------------------------------------------------------------------------
(* Batch ingestion: claims C11 - C16, checked under SpecBatch *)

NumericNames == {"nil", "tb1", "tb2", "mitogen"}
RequiredNames == {"sample id"} \cup NumericNames

\* The header row h has a cell that reads name, letter case and
\* surrounding blanks aside.
HasName(h, name) == \E i \in 1..Len(h) : Lower(Strip(h[i])) = name

\* The column of h in which name appears.
Col(h, name) == CHOOSE i \in 1..Len(h) : Lower(Strip(h[i])) = name

\* The row r holds nothing but blanks.
EntirelyBlank(r) == \A i \in 1..Len(r) : Strip(r[i]) = ""

\* A validation rule rejects row r under header h: too few columns, a
\* blank Sample ID, or a concentration that is no number.
Rejected(h, r) ==
    \/ \E name \in RequiredNames : Col(h, name) > Len(r)
    \/ Strip(r[Col(h, "sample id")]) = ""
    \/ \E name \in NumericNames : ~IsFloat(r[Col(h, name)])

\* The row r is one to process under header h.
Valid(h, r) == ~EntirelyBlank(r) /\ ~Rejected(h, r)

\* The rows of a file that are to be processed, in file order.
ValidRows(h, rows) == SelectSeq(rows, LAMBDA r : Valid(h, r))

\* Dictionary d is the interpretation of row r read under header h.
IsResultOfRow(d, h, r) ==
    LET e == interpret_qft(ToFloat(r[Col(h, "nil")]), ToFloat(r[Col(h, "tb1")]),
                           ToFloat(r[Col(h, "tb2")]), ToFloat(r[Col(h, "mitogen")]))
    IN  /\ d.sample_id = Strip(r[Col(h, "sample id")])
        /\ d.input_nil = ToFloat(r[Col(h, "nil")])
        /\ d.input_tb1 = ToFloat(r[Col(h, "tb1")])
        /\ d.input_tb2 = ToFloat(r[Col(h, "tb2")])
        /\ d.input_mit = ToFloat(r[Col(h, "mitogen")])
        /\ d.result = e.result /\ d.reason = e.reason

\* The readings of batch files the state knows of: the one in flight and
\* the one that returned last, if its header was accepted.  done are the
\* rows the loop is through with.
Readings(a) ==
    (IF batch[a] # None
       THEN {[file_extension |-> batch[a].file_extension,
              header_row |-> batch[a].header_row, rows |-> batch[a].rows,
              done |-> IF pc[a] = "batch_run"
                         THEN SubSeq(batch[a].rows, 1, Len(batch[a].rows) - 1)
                         ELSE batch[a].rows,
              db_len |-> batch[a].db_len,
              processed |-> batch[a].processed_results,
              skipped |-> batch[a].skipped,
              total |-> batch[a].row_num - 1, returned |-> FALSE]}
       ELSE {})
    \cup
    (IF batch_out[a] # None /\ batch_out[a].header_row # None
        /\ \A name \in RequiredNames : HasName(batch_out[a].header_row, name)
       THEN {[file_extension |-> batch_out[a].file_extension,
              header_row |-> batch_out[a].header_row, rows |-> batch_out[a].rows,
              done |-> batch_out[a].rows,
              db_len |-> batch_out[a].db_len,
              processed |-> batch_out[a].returned[1],
              skipped |-> batch_out[a].returned[2],
              total |-> batch_out[a].returned[3], returned |-> TRUE]}
       ELSE {})

\* C11: header cells are matched to the five required names without regard
\* to letter case and surrounding blanks, in any column order, extra columns
\* ignored: a header row with all five names yields the column mapping (it
\* is refused only when a name is absent), and every data cell is read from
\* the column in which its name appeared.
C11_HeaderMapping ==
    \A a \in apps :
        /\ batch[a] # None =>
              /\ \A name \in RequiredNames :
                    /\ HasName(batch[a].header_row, name)
                    /\ batch[a].header_map[HeaderKey[name]]
                         = Col(batch[a].header_row, name)
              /\ DOMAIN batch[a].header_map = {HeaderKey[name] : name \in RequiredNames}
        /\ (batch_out[a] # None /\ batch_out[a].header_row # None
            /\ \A k \in 1..Len(dialogs[a]) : dialogs[a][k] # "Header Error") =>
              \A name \in RequiredNames : HasName(batch_out[a].header_row, name)
        /\ (\E k \in 1..Len(dialogs[a]) : dialogs[a][k] = "Header Error") =>
              \E name \in RequiredNames : ~HasName(batch_out[a].header_row, name)
        /\ pc[a] = "batch_run" =>
              IsResultOfRow(cur[a].results_dict, batch[a].header_row,
                            batch[a].rows[Len(batch[a].rows)])

\* C11 happens: under a header in another column order, with other letter
\* case, blanks and an extra column, a row is being interpreted.
C11_Witness ==
    \E a \in apps :
        /\ pc[a] = "batch_run"
        /\ Len(batch[a].header_row) = 6
        /\ batch[a].header_row[1] = "MITOGEN"
        /\ batch[a].header_row[5] = " Nil "
        /\ cur[a].results_dict.sample_id = "S1"
        /\ cur[a].results_dict.input_mit = 2000
        /\ cur[a].results_dict.input_nil = 40

BlankCount(rows) == Cardinality({i \in 1..Len(rows) : EntirelyBlank(rows[i])})
RejectedCount(h, rows) ==
    Cardinality({i \in 1..Len(rows) :
                    ~EntirelyBlank(rows[i]) /\ Rejected(h, rows[i])})

\* C13: for a batch with a valid header, total is the number of data rows
\* seen (entirely blank rows included), skipped is the number of rows a
\* validation rule rejected, and the number of processed entries is
\* total - blank rows - skipped.
C13_BatchCounts ==
    \A a \in apps : \A b \in Readings(a) :
        b.returned =>
            /\ b.total = Len(b.rows)
            /\ b.skipped = RejectedCount(b.header_row, b.rows)
            /\ Len(b.processed) = b.total - BlankCount(b.rows) - b.skipped

\* The counts of C13 hold of every batch none of whose rows holds blanks
\* only in a filled cell.
C13_CountsWithoutBlankCells ==
    \A a \in apps : \A b \in Readings(a) :
        (b.returned /\ \A i \in 1..Len(b.rows) :
                          EntirelyBlank(b.rows[i]) => ~any_cell(b.rows[i])) =>
            /\ b.total = Len(b.rows)
            /\ b.skipped = RejectedCount(b.header_row, b.rows)
            /\ Len(b.processed) = b.total - BlankCount(b.rows) - b.skipped

\* C14: an entirely blank data row is passed over in silence: it is
\* neither classified nor appended, the skipped count and the processed
\* entries stay as they are, and it only counts towards total.
C14_BlankRowSilent ==
    [][\A a \in apps :
         (/\ pc[a] = "batch"
          /\ batch'[a] # None
          /\ Len(batch'[a].rows) = Len(batch[a].rows) + 1
          /\ EntirelyBlank(batch'[a].rows[Len(batch'[a].rows)])) =>
            /\ batch'[a].skipped = batch[a].skipped
            /\ batch'[a].processed_results = batch[a].processed_results
            /\ batch'[a].row_num = batch[a].row_num + 1
            /\ pc'[a] = "batch" /\ cur' = cur
            /\ db' = db /\ log' = log]_vars

\* A sheet row of blanks has been passed over without being counted.
C14_ExcelBlankPassedOver ==
    \E a \in apps :
        /\ pc[a] = "batch" /\ batch[a].file_extension = ".xlsx"
        /\ batch[a].rows = << <<" ", "", "", "", "">> >>
        /\ batch[a].skipped = 0

\* C15: ingestion goes on after a row it skips and rows are independent:
\* every row read is counted in total, the processed entries are exactly the
\* rows that are valid by their own cells, in file order, each with the
\* category its own cells give, and every rejected row is counted whatever
\* the rows around it are.
C15_RowsIndependent ==
    \A a \in apps : \A b \in Readings(a) :
        /\ b.total = Len(b.rows)
        /\ Len(b.processed) = Len(ValidRows(b.header_row, b.done))
        /\ \A k \in 1..Len(b.processed) :
              IsResultOfRow(b.processed[k], b.header_row,
                            ValidRows(b.header_row, b.done)[k])
        /\ b.skipped >= RejectedCount(b.header_row, b.done)
        /\ b.skipped + Len(b.processed) <= Len(b.done)
        /\ pc[a] \in {"batch", "batch_run"} => dialogs[a] = <<>>

\* C15 happens: a batch has returned whose first row was rejected and whose
\* second row was processed.
C15_Witness ==
    \E a \in apps : \E b \in Readings(a) :
        /\ b.returned /\ Len(b.rows) = 2
        /\ ~EntirelyBlank(b.rows[1]) /\ Rejected(b.header_row, b.rows[1])
        /\ Valid(b.header_row, b.rows[2])
        /\ b.skipped = 1 /\ Len(b.processed) = 1

\* The row i of the history carries sample id, inputs, category and reason
\* of dictionary d.
RecordCarries(i, d) ==
    /\ db[i].sample_id = d.sample_id
    /\ db[i].nil_value = d.input_nil /\ db[i].tb1_value = d.input_tb1
    /\ db[i].tb2_value = d.input_tb2 /\ db[i].mit_value = d.input_mit
    /\ db[i].result = d.result /\ db[i].reason = d.reason

\* C16: every row that passes validation is classified and delta-checked,
\* appends exactly one history record with its sample id, inputs, category
\* and reason, and adds exactly one classification to the outcome; the
\* outcome is in row order and the history grows by one record per
\* processed entry.
C16_OneRecordPerRow ==
    \A a \in apps : \A b \in Readings(a) :
        /\ Len(db) = b.db_len + Len(b.processed)
        /\ Len(b.processed) = Len(ValidRows(b.header_row, b.done))
        /\ \A k \in 1..Len(b.processed) :
              /\ IsResultOfRow(b.processed[k], b.header_row,
                               ValidRows(b.header_row, b.done)[k])
              /\ RecordCarries(b.db_len + k, b.processed[k])
              /\ checked[b.db_len + k].read_len = b.db_len + k - 1
              /\ DeltaCheckRight(checked[b.db_len + k], b.processed[k].sample_id,
                                 b.processed[k].result)

\* C16 happens: a batch of a Positive and a Negative row of one sample has
\* returned; both are in the history and the second one's delta check was
\* significant.
C16_Witness ==
    \E a \in apps : \E b \in Readings(a) :
        /\ b.returned /\ Len(b.processed) = 2 /\ b.db_len = 0
        /\ Len(db) = 2
        /\ db[1].result = POS /\ db[2].result = NEG
        /\ db[1].sample_id = db[2].sample_id
        /\ Significant(checked[2])

----------------------------------------------------------------------------
(* Aggregation: claims C17 - C20, checked under SpecAggregate *)

\* The rows of the history inside the inclusive range of dates.
InRange(range) ==
    {i \in 1..Len(db) :
        /\ DateText[range[1]] * 86400 <= db[i].timestamp
        /\ db[i].timestamp <= DateText[range[2]] * 86400 + 86399}

\* The aggregation calls the state holds the outcome of, over a range of
\* two dates.
AggregationCalls ==
    (IF dashboard # None THEN {dashboard} ELSE {})
    \cup (IF report # None /\ IsDate(report.range[1]) /\ IsDate(report.range[2])
            THEN {report} ELSE {})

\* The calls that produced a summary.
Summaries == {c \in AggregationCalls : c.summary # None}

\* Two rates are the same number.
SameRate(r1, r2) == r1[1] * r2[2] = r2[1] * r1[2]

\* The dashboard and the report were computed for the same range and both
\* gave numbers.
SameRangeSummaries ==
    /\ dashboard # None /\ report # None /\ report.summary # None
    /\ dashboard.range = report.range

\* C17: for identical ranges over the same history the dashboard and the
\* summary report give identical numbers: total, positive, negative and
\* indeterminate counts, the highNil, lowMitogen and otherIndeterminate
\* sub-counts, and the positive and indeterminate rates.
C17_SameNumbers ==
    SameRangeSummaries =>
        /\ dashboard.summary.total = report.summary.total
        /\ dashboard.summary.pos = report.summary.pos
        /\ dashboard.summary.neg = report.summary.neg
        /\ dashboard.summary.ind = report.summary.ind
        /\ dashboard.summary.ind_high_nil = report.summary.ind_high_nil
        /\ dashboard.summary.ind_low_mit = report.summary.ind_low_mit
        /\ dashboard.summary.ind_other = report.summary.ind_other
        /\ SameRate(dashboard.summary.pos_rate, report.summary.pos_rate)
        /\ SameRate(dashboard.summary.ind_rate, report.summary.ind_rate)

\* All numbers of C17 but otherIndeterminate are identical.
C17_SameButOther ==
    SameRangeSummaries =>
        /\ dashboard.summary.total = report.summary.total
        /\ dashboard.summary.pos = report.summary.pos
        /\ dashboard.summary.neg = report.summary.neg
        /\ dashboard.summary.ind = report.summary.ind
        /\ dashboard.summary.ind_high_nil = report.summary.ind_high_nil
        /\ dashboard.summary.ind_low_mit = report.summary.ind_low_mit
        /\ SameRate(dashboard.summary.pos_rate, report.summary.pos_rate)
        /\ SameRate(dashboard.summary.ind_rate, report.summary.ind_rate)

\* The number of in-range Indeterminate rows whose reason is of kind k.
SubReasonCount(range, k) ==
    Cardinality({i \in InRange(range) :
        /\ db[i].result = "IND*"
        /\ k = (IF db[i].reason[1] = "High Nil Control" THEN "highNil"
                ELSE IF db[i].reason[1] = "Low Mitogen Control" THEN "lowMitogen"
                ELSE "otherIndeterminate")})

\* The sub-counts of summary c are those of the Indeterminate rows alone.
SubReasonsRight(c) ==
    /\ c.summary.ind_high_nil = SubReasonCount(c.range, "highNil")
    /\ c.summary.ind_low_mit = SubReasonCount(c.range, "lowMitogen")
    /\ c.summary.ind_other = SubReasonCount(c.range, "otherIndeterminate")
    /\ c.summary.ind_high_nil + c.summary.ind_low_mit + c.summary.ind_other
         = c.summary.ind

\* C18: the aggregation gives a sub-reason to each Indeterminate record and
\* to no other: highNil for a reason with "High Nil", else lowMitogen for
\* one with "Low Mitogen", else otherIndeterminate; so the three sub-counts
\* add up to indeterminate, for every history and range.
C18_SubReasons == \A c \in Summaries : SubReasonsRight(c)

\* The sub-counts of the dashboard are right.
C18_DashboardSubReasons == dashboard # None => SubReasonsRight(dashboard)

\* The number of in-range rows of a category.
CategoryCount(range, category) ==
    Cardinality({i \in InRange(range) : db[i].result = category})

\* C19: total is the number of records in the range, and positive,
\* negative and indeterminate are the numbers of in-range records of each
\* category.
C19_CategoryCounts ==
    \A c \in Summaries :
        /\ c.summary.total = Cardinality(InRange(c.range))
        /\ c.summary.pos = CategoryCount(c.range, "POS+")
        /\ c.summary.neg = CategoryCount(c.range, "NEG")
        /\ c.summary.ind = CategoryCount(c.range, "IND*")

\* C19 happens: of a Positive row saved in the last second of a day and an
\* Indeterminate row saved in the first second of the next, the report for
\* the second day counts one and the dashboard of seven days counts both.
C19_Witness ==
    /\ Len(db) = 2
    /\ db[1].timestamp = 86399 /\ db[1].result = "POS+"
    /\ db[2].timestamp = 86400 /\ db[2].result = "IND*"
    /\ report # None /\ report.summary # None
    /\ report.range = <<"2024-03-02", "2024-03-02">>
    /\ report.summary.total = 1 /\ report.summary.ind = 1
    /\ dashboard # None /\ dashboard.summary.total = 2
    /\ dashboard.summary.pos = 1

\* Rate r is count / total * 100, and 0 when total is 0.
RateIs(r, count, total) ==
    /\ r[2] > 0
    /\ IF total = 0 THEN r[1] = 0 ELSE r[1] * total = count * 100 * r[2]

\* The rates of summary c are right, and on the example history of 6
\* Positive, 3 Negative and 1 Indeterminate "Low Mitogen" record they are
\* 60.0 and 10.0 with lowMitogen = 1 and highNil = 0.
RatesRight(c) ==
    /\ RateIs(c.summary.pos_rate, c.summary.pos, c.summary.total)
    /\ RateIs(c.summary.ind_rate, c.summary.ind, c.summary.total)
    /\ (Len(db) = 10 /\ c.summary.total = 10) =>
          /\ c.summary.pos_rate[1] = 60 * c.summary.pos_rate[2]
          /\ c.summary.ind_rate[1] = 10 * c.summary.ind_rate[2]
          /\ c.summary.ind_low_mit = 1 /\ c.summary.ind_high_nil = 0

\* Call c gave the summary of an empty range: total 0 and both rates 0.
ZeroSummary(c) ==
    /\ c.summary # None
    /\ c.summary.total = 0
    /\ c.summary.pos_rate[1] = 0 /\ c.summary.ind_rate[1] = 0

\* C20 as stated: the rates are positive / total * 100 and indeterminate /
\* total * 100, and for a range without records the aggregation returns a
\* summary with total = 0 and both rates 0.
C20_RatesAndEmptyRange ==
    \A c \in AggregationCalls :
        /\ c.summary # None => RatesRight(c)
        /\ InRange(c.range) = {} => ZeroSummary(c)

\* C20 as amended: the rates are positive / total * 100 and indeterminate /
\* total * 100 wherever a summary is made; for a range without records the
\* dashboard gives a summary with total = 0 and both rates 0, and the
\* summary report gives a No Data notice and no summary.
C20_RatesAmended ==
    /\ [](\A c \in AggregationCalls : c.summary # None => RatesRight(c))
    /\ []((dashboard # None /\ InRange(dashboard.range) = {}) =>
              ZeroSummary(dashboard))
    /\ [](\A c \in AggregationCalls \ {dashboard} :
              (InRange(c.range) = {}) <=> (c.summary = None))
    /\ [][\A a \in apps :
            (report' # report /\ report'.summary = None) =>
                dialogs'[a][Len(dialogs'[a])] = "No Data"]_vars

\* C20 happens: on the example history the report gives 60.0 and 10.0 and
\* the dashboard of the day after, which holds no record, gives the zero
\* summary.
C20_Witness ==
    /\ Len(db) = 10
    /\ report # None /\ report.summary # None
    /\ report.summary.total = 10
    /\ report.summary.pos_rate[1] = 60 * report.summary.pos_rate[2]
    /\ dashboard # None /\ ZeroSummary(dashboard)

----------------------------------------------------------------------------
(* The shared history: claims C21 - C24 *)

\* History h2 is history h1 with rows added behind it.
Extends(h2, h1) ==
    /\ Len(h2) >= Len(h1)
    /\ \A i \in 1..Len(h1) : h2[i] = h1[i]

\* C21: the history is append-only.  Whatever is done (a single
\* interpretation, a batch import, a dashboard update, a report, a look at
\* the history, the start of another instance, two submissions between
\* each other's read and save), every row the history held is still there
\* with the same fields, and a new row comes behind all others.
C21_AppendOnly == [][Extends(db', db)]_vars

\* C21 happens: two rows written by two instances whose submissions
\* interleaved, shown in the history window, with the dashboard updated.
C21_Witness ==
    /\ Len(db) = 2
    /\ checked[1].app # checked[2].app
    /\ checked[2].read_len = 0
    /\ treeview # None /\ Len(treeview) = 2
    /\ dashboard # None

\* The handler of instance a has returned with a result for the caller.
Returned(a) == pc[a] = "idle" /\ (ret[a] # None \/ batch_out[a] # None)

\* The caller of the handler of instance a was told of a failure: an error
\* dialog was shown in place of a result, or the batch counts fewer
\* processed rows than the file has rows to process.
FailureSurfaced(a) ==
    \/ batch_out[a] = None
        /\ \E k \in 1..Len(dialogs[a]) : dialogs[a][k] = "Database Error"
    \/ batch_out[a] # None
        /\ Len(batch_out[a].returned[1])
             < Len(ValidRows(batch_out[a].header_row, batch_out[a].rows))

\* C22: no failure of the persistence is dropped in silence.  When the
\* append or the read of the latest row failed during a handler, its caller
\* is told (a failure shown or a count that reflects it), and every batch
\* row reported as processed has its row in the history.
C22_NoFailureDropped ==
    \A a \in apps :
        /\ (Returned(a) /\ failures[a] # {}) => FailureSurfaced(a)
        /\ (batch_out[a] # None) =>
              Len(batch_out[a].returned[1]) <= Len(db) - batch_out[a].db_len

\* A single sample whose save failed shows a Database Error dialog.
C22_SingleSaveFailureShown ==
    \A a \in apps :
        (Returned(a) /\ batch_out[a] = None /\ "save" \in failures[a]) =>
            \E k \in 1..Len(dialogs[a]) : dialogs[a][k] = "Database Error"

\* Instance a appends a row in this step.
Appends(a) ==
    /\ cur[a] # None /\ cur'[a] = None
    /\ Len(db') = Len(db) + 1

\* C24: the read of the latest row and the append are not one step.  The
\* delta check a row was saved with is the one made at the read: rows other
\* instances appended since (rows of the same instance there are none) are
\* not looked at, so two submissions for one sample can both read the same
\* previous row and the second one's check ignores the first one's row.
C24_ReadAppendNotAtomic ==
    /\ [](\A i \in 1..Len(db) :
            /\ checked[i].read_len < i
            /\ \A j \in (checked[i].read_len + 1)..(i - 1) :
                  checked[j].app # checked[i].app
            /\ DeltaCheckRight(checked[i], db[i].sample_id, db[i].result))
    /\ [][\A a \in apps : Appends(a) =>
            /\ checked'[Len(db')].read_len = cur[a].read_len
            /\ checked'[Len(db')].previous_db_result = cur[a].previous_db_result
            /\ checked'[Len(db')].warnings = cur[a].warnings]_vars

\* C24 happens: two instances submitted sample S1, both read the empty
\* table; the first saved Positive, the second then saved Negative without
\* a delta warning, although the latest row of the sample was Positive.
C24_Witness ==
    /\ Len(db) = 2
    /\ db[1].sample_id = db[2].sample_id
    /\ db[1].result = POS /\ db[2].result = NEG
    /\ checked[1].app # checked[2].app
    /\ checked[1].read_len = 0 /\ checked[2].read_len = 0
    /\ checked[1].previous_db_result = checked[2].previous_db_result
    /\ ~Significant(checked[2])
    /\ check_significant_change(db[1].result, db[2].result)

----------------------------------------------------------------------------
(* One interpretation at a time and validation first: claims C27 and C28 *)

\* An interpretation of instance a is between its read and its append.
InProgress(a) == is_processing[a] /\ cur[a] # None

\* A call of run_interpretation of instance a is turned away in this step
\* (the DEBUG line of line 330).
TurnedAway(a) == debug'[a] /\ ~debug[a]

\* C27: an instance runs its interpretations one at a time.  is_processing
\* is set exactly while one interpretation is between its read and its
\* append, and is clear whenever the instance is idle (after a result, a
\* validation error or a failed save).  While one is in progress no other
\* takes its place; a call that arrives then returns None and neither
\* reads, logs nor appends; the one in progress ends by logging and
\* clearing is_processing.
C27_OneAtATime ==
    /\ [](\A a \in apps :
            /\ is_processing[a] <=> cur[a] # None
            /\ pc[a] = "idle" => ~is_processing[a])
    /\ [][\A a \in apps : InProgress(a) =>
            /\ cur'[a] \in {cur[a], None}
            /\ TurnedAway(a) =>
                  /\ ret'[a] = None
                  /\ db' = db /\ log' = log /\ checked' = checked
                  /\ cur' = cur /\ is_processing' = is_processing
            /\ cur'[a] = None =>
                  /\ ~is_processing'[a]
                  /\ Len(log') = Len(log) + 1]_vars

\* C27 happens: while an interpretation of instance B was in progress, a
\* call was turned away; the other instance has saved a row meanwhile and
\* the interpretation is still the one that read the empty table.
C27_Witness ==
    /\ "B" \in apps /\ InProgress("B") /\ debug["B"]
    /\ ret["B"] = None
    /\ Len(db) = 1 /\ checked[1].app = "A"
    /\ cur["B"].read_len = 0

\* The text of a field is a number.
IsNumber(f) == f # "" /\ Strip(f) \in DOMAIN NumText

\* The entry fields hold a Sample ID and four numbers.
ValidForm(form) ==
    /\ Strip(form.sample_id) # ""
    /\ IsNumber(form.nil) /\ IsNumber(form.tb1)
    /\ IsNumber(form.tb2) /\ IsNumber(form.mit)

\* The engine was called with the numbers of the fields of form.
EngineCalledWith(d, form) ==
    /\ d.input_nil = NumText[Strip(form.nil)]
    /\ d.input_tb1 = NumText[Strip(form.tb1)]
    /\ d.input_tb2 = NumText[Strip(form.tb2)]
    /\ d.input_mit = NumText[Strip(form.mit)]
    /\ d.sample_id = Strip(form.sample_id)

\* C28: a single sample is validated before the engine is called.  The
\* engine is called only for fields that hold a Sample ID and four texts
\* that are numbers, and with these numbers; a submission with an empty
\* Sample ID or with a field that is empty or no number ends with an Input
\* Error, returns None and leaves the history, the log and the
\* interpretation state as they were.
C28_ValidatedBeforeEngine ==
    /\ [](\A a \in apps : (cur[a] # None /\ cur[a].single) =>
            /\ ValidForm(cur[a].inputs)
            /\ EngineCalledWith(cur[a].results_dict, cur[a].inputs))
    /\ [][\A a \in apps :
            (dialogs'[a] = <<"Input Error">> /\ dialogs[a] # dialogs'[a]) =>
                /\ ret'[a] = None
                /\ db' = db /\ log' = log /\ checked' = checked
                /\ cur' = cur /\ is_processing' = is_processing]_vars
    /\ [][\A a \in apps : (cur[a] = None /\ pc[a] = "idle" /\ pc'[a] = "idle") =>
            (db' = db /\ log' = log)]_vars

\* C28 happens: after a sample was interpreted and saved, a submission was
\* turned down with an Input Error; the history and the log hold the one
\* row and no result was returned.
C28_Witness ==
    \E a \in apps :
        /\ dialogs[a] = <<"Input Error">> /\ ret[a] = None
        /\ cur[a] = None /\ pc[a] = "idle"
        /\ Len(db) = 1 /\ Len(log) = 1

----------------------------------------------------------------------------
(* The category tokens: claim C25, under Spec *)

\* The three category tokens.
Tokens == {POS, NEG, IND}

\* The counting loops of the dashboard and of the report put a row of the
\* history in exactly one of their three category counts.
CountedOnce(row) ==
    /\ dashboard_summary(<<row>>).pos + dashboard_summary(<<row>>).neg
          + dashboard_summary(<<row>>).ind = 1
    /\ report_summary(<<row>>).pos + report_summary(<<row>>).neg
          + report_summary(<<row>>).ind = 1

\* C25: every row of the history carries one of the three tokens POS+, NEG
\* and IND*, and a token the classification wrote is one the delta check
\* and the aggregation compare with: the delta check tells it from each of
\* the two others, in both directions, the delta check that read it read
\* one of the three, and each counting loop counts the row in one category.
C25_TokensRecognised ==
    \A i \in 1..Len(db) :
        /\ db[i].result \in Tokens
        /\ \A c \in Tokens \ {db[i].result} :
              /\ check_significant_change(db[i].result, c)
              /\ check_significant_change(c, db[i].result)
        /\ ~check_significant_change(db[i].result, db[i].result)
        /\ checked[i].previous_db_result # None =>
              checked[i].previous_db_result[1] \in Tokens
        /\ CountedOnce(db[i])

\* C25 happens: an Indeterminate row and a Positive row of one sample are
\* in the history, and the delta check of the second read the first.
C25_Witness ==
    /\ Len(db) = 2
    /\ db[1].result = IND /\ db[2].result = POS
    /\ checked[2].previous_db_result # None
    /\ checked[2].previous_db_result[1] = IND
    /\ Significant(checked[2])

----------------------------------------------------------------------------
(* The range of the aggregation: claims C23 and C26 *)

\* The summary report was just asked for a range with a text that is no
\* date.
ReportOfBadRange ==
    /\ report' # report /\ report' # None
    /\ ~(IsDate(report'.range[1]) /\ IsDate(report'.range[2]))

\* Dialog d is among the dialogs instance a showed during its last handler.
Shown(ds, d) == \E k \in 1..Len(ds) : ds[k] = d

\* C23: a range text that is no YYYY-MM-DD date makes the aggregation fail
\* with a date-format error that reaches the caller: no summary is made,
\* and the outcome differs from that of a valid range without records
\* (the query hands its caller something else than the empty list, and
\* the No Data notice of an empty range is not given).
C23_DateErrorDistinct ==
    [][\A a \in apps : ReportOfBadRange =>
          /\ report'.summary = None
          /\ Shown(dialogs'[a], "Date Error")
          /\ report'.data # <<>>
          /\ ~Shown(dialogs'[a], "No Data")]_vars

\* For such a range the Date Error dialog is shown and no summary is made.
C23_DateErrorShown ==
    [][\A a \in apps : ReportOfBadRange =>
          /\ report'.summary = None
          /\ Shown(dialogs'[a], "Date Error")]_vars

\* The day a row of the history is dated on.
DayOf(row) == row.timestamp \div DAY

\* The rows of the history dated on the start day, the end day or a day
\* between them.
OnDaysOf(range) ==
    {i \in 1..Len(db) :
        DateText[range[1]] <= DayOf(db[i]) /\ DayOf(db[i]) <= DateText[range[2]]}

\* C26: the aggregation covers exactly the rows dated from the first second
\* of the start day to the last second of the end day, both days included
\* and the days before and after excluded, and the query returns them in
\* ascending timestamp order.
C26_InclusiveWindowAscending ==
    \A c \in AggregationCalls :
        /\ Len(c.data) = Cardinality(OnDaysOf(c.range))
        /\ \A i \in 1..Len(db) :
              (i \in OnDaysOf(c.range)) <=> (\E k \in 1..Len(c.data) : c.data[k] = db[i])
        /\ \A k \in 1..(Len(c.data) - 1) :
              c.data[k].timestamp <= c.data[k + 1].timestamp
        /\ c.summary # None => c.summary.total = Len(c.data)

\* C26 happens: of a row saved in the last second of day 0 and a row saved
\* in the last second of day 1, the report for day 1 covers the second
\* only and the dashboard of seven days covers both, the older first.
C26_Witness ==
    /\ Len(db) = 2
    /\ db[1].timestamp = DAY - 1 /\ db[2].timestamp = 2 * DAY - 1
    /\ report # None /\ report.range = <<"2024-03-02", "2024-03-02">>
    /\ report.data = <<db[2]>>
    /\ dashboard # None /\ dashboard.data = <<db[1], db[2]>>

----------------------------------------------------------------------------
(* The category counts add up: claim C29, under SpecAggregate *)

\* C29: on every history the interpretations of this program wrote and for
\* every range, positive + negative + indeterminate = total, in the
\* dashboard and in the summary report: no row of the range is left out of
\* all three category counts.
C29_CountsAddUp ==
    \A c \in Summaries :
        /\ c.summary.pos + c.summary.neg + c.summary.ind = c.summary.total
        /\ c.summary.total = Len(c.data)

\* C29 happens: the dashboard covers an Indeterminate and a Positive row,
\* the report of the same history a range with the ten rows of the example
\* or with both rows.
C29_Witness ==
    /\ Len(db) = 2
    /\ db[1].result = IND /\ db[2].result = POS
    /\ dashboard # None /\ dashboard.summary.total = 2
    /\ dashboard.summary.ind = 1 /\ dashboard.summary.pos = 1
    /\ report # None /\ report.summary # None
    /\ report.summary.total = 2 /\ report.summary.ind = 1

----------------------------------------------------------------------------
(* The two readers: claim C30, under SpecReaders *)

\* Instance A has imported a table as .csv and instance B the same table
\* (same header, same cell texts) as .xlsx.
SameTableBothWays ==
    /\ batch_out["A"] # None /\ batch_out["B"] # None
    /\ batch_out["A"].file_extension = ".csv"
    /\ batch_out["B"].file_extension = ".xlsx"
    /\ batch_out["A"].header_row = batch_out["B"].header_row
    /\ batch_out["A"].rows = batch_out["B"].rows

\* Two rows of the history are the same record but for the moment of saving.
SameRecord(r1, r2) == [r1 EXCEPT !.timestamp = 0] = [r2 EXCEPT !.timestamp = 0]

\* The two imports returned the same processed classifications, the same
\* skipped count and the same total, and appended the same records.
SameOutcome ==
    LET A == batch_out["A"]
        B == batch_out["B"]
    IN  /\ A.returned = B.returned
        /\ \A k \in 1..Len(A.returned[1]) :
              /\ A.db_len + k <= Len(db) /\ B.db_len + k <= Len(db)
              /\ SameRecord(db[A.db_len + k], db[B.db_len + k])

\* C30: _process_csv and _process_excel are equivalent: for the same header
\* and the same cell texts, rows of empty or blank cells included, they
\* return the same processed classifications, the same skipped count and
\* the same total, and append the same records.
C30_ReadersEquivalent == SameTableBothWays => SameOutcome

\* The readers are equivalent on tables without a row of blanks.
C30_EquivalentWithoutBlankRows ==
    (SameTableBothWays /\ \A i \in 1..Len(batch_out["A"].rows) :
        EntirelyBlank(batch_out["A"].rows[i]) => ~any_cell(batch_out["A"].rows[i]))
      => SameOutcome

\* Both readers have read a table with a Positive row and a row of empty
\* cells, with the same outcome.
C30_SameOnEmptyRow ==
    /\ SameTableBothWays /\ SameOutcome
    /\ batch_out["A"].rows = << <<"S1", "0.10", "1.50", "0.20", "5.0">>,
                                <<"", "", "", "", "">> >>
    /\ Len(batch_out["B"].returned[1]) = 1 /\ Len(db) = 2

====
